---- MODULE Spec2Model ----
(***************************************************************************)
(* Model of the evolution engine (src/src/core/evolution_engine.cpp) and   *)
(* of one generation of the environment (src/src/core/environment.cpp).    *)
(*                                                                         *)
(* Spec    : the engine's lifecycle, one client thread, the worker thread  *)
(*           running evolutionLoop, and an event callback run on the       *)
(*           thread that emits the event.                                  *)
(* FairSpec: Spec with weak fairness on the worker's steps.                *)
(* EnvSpec : Environment::update on a population, step by step.            *)
(***************************************************************************)
EXTENDS Integers, Sequences, FiniteSets, TLC

\* ------------------------------------------------------------------ bounds
MaxGen == 3          \* generations the environment is let to run
MaxOps == 4          \* calls the client thread makes
MaxEnvGen == 2       \* generations Environment::update is run for
MaxInitPop == 3      \* largest starting population
MaxLoads == 2        \* calls of Environment::loadState
MaxEmitted == 1100   \* events emitted in a long run
MaxGrowPop == 51     \* largest population performReproduction is tried on
MaxProgLen == 4       \* longest bytecode given to the VM
MaxOrganisms == 3     \* Organism objects constructed
MaxCreated == 4      \* organisms constructed and handed to addOrganism
MaxPredPop == 41     \* largest population the pressures are tried on
MaxTopPop == 3       \* largest population getTopFittest is tried on

\* ------------------------------------------------------ configurations tried
MaxGenerationsChoices == {0, 2}      \* config_.max_generations (0: unlimited)
SaveIntervalChoices == {2}           \* config_.save_interval_generations
InitialCheckpoints == {-1, 2}        \* checkpoint.json left by an earlier process

\* ------------------------------------------------------- program constants
HistoryCap == 1000   \* emitEvent trims the history to this length
NoCheckpoint == -1   \* checkpoint.json does not exist

VARIABLES
    \* ---- EvolutionEngine
    running,            \* running_
    paused,             \* paused_
    should_stop,        \* should_stop_
    total_generations,  \* stats_.total_generations
    history,            \* history_
    callback,           \* event_callback_: "none" or "stopper" (calls stop())
    max_generations,    \* config_.max_generations
    enable_save_state,  \* config_.enable_save_state
    save_interval,      \* config_.save_interval_generations
    checkpoint,         \* generation stored in <save_directory>/checkpoint.json
    env_generation,     \* environment_->stats_.generation
    wpc,                \* evolution_thread_ and the worker's position
    gen_result,         \* evolutionLoop's local gen_result
    crashed,            \* std::terminate was called
    \* ---- the client thread
    cpc,                \* position of the client thread
    ret,                \* what the client's last call returned
    call,               \* the client's last call
    ops,                \* calls made so far
    stats_snapshot,     \* what the client's last getStats() returned
    \* ---- history variables of the checks
    pause_gen,          \* total_generations when pause() last returned true
    update_failed,      \* Environment::update returned false in this run
    stopped,            \* the client's stop() returned true, no start() since
    stop_on_worker,     \* the callback called stop() in the last generation
    \* ---- Environment
    population,         \* population_: organism id -> fitness score (in tenths)
    next_id,            \* Organism::next_id_
    env_stats,          \* stats_
    cfg,                \* config_
    upc,                \* position inside Environment::update
    mutex,              \* Environment::mutex_: "free" or "update" (update() holds it)
    snapshot,           \* update's current_population
    elites,             \* update's elites: id -> fitness score
    initial_size,       \* performSelection's initial_size
    last_update,        \* how the last update() ended
    file,               \* the checkpoint file saveState writes and loadState reads
    loads,              \* calls of Environment::loadState so far
    load_result,        \* what the last Environment::loadState returned
    top,                \* the last getTopFittest call: its count and its result
    pop_call,           \* the last addOrganism / removeOrganism call and its result
    vm,                 \* a BytecodeVM: config_, state_, last_stats_ and its caller
    organisms,          \* the Organism objects: id -> bytecode_, generation, parent_id
    org_call,           \* the last call of an Organism method and where it stands
    \* ---- history variables of the checks
    elite_ids,          \* ids of the elites update() last took out
    overwritten         \* ids whose entry performReproduction last replaced

engineVars == <<running, paused, should_stop, total_generations, history,
                callback, max_generations, enable_save_state, save_interval,
                checkpoint, env_generation, wpc, gen_result, crashed,
                cpc, ret, call, ops, stats_snapshot, pause_gen, update_failed, stopped,
                stop_on_worker>>

\* the single calls tried on their own
unitVars == <<pop_call, vm, organisms, org_call>>

\* the environment proper
envState == <<population, next_id, env_stats, cfg, upc, mutex, snapshot, elites,
              initial_size, last_update, file, loads, load_result, top,
              elite_ids, overwritten>>

envVars == <<envState, unitVars>>

vars == <<engineVars, envVars>>

\* ------------------------------------------------------------ EvolutionEngine

Event(type, generation) == [type |-> type, generation |-> generation]

\* emitEvent without the trimming loop
PushHistoryUnbounded(h, e) == Append(h, e)

\* emitEvent's history part: push_back, then pop_front while size() > 1000
PushHistory(h, e) ==
    LET a == Append(h, e)
    IN  IF Len(a) > HistoryCap THEN SubSeq(a, Len(a) - HistoryCap + 1, Len(a)) ELSE a

\* the EngineStats getStats returns: the engine's generation count, and the
\* environment generation its population and fitness figures were computed in
EngineStats(generations, population_generation) ==
    [ total_generations |-> generations,
      population_generation |-> population_generation ]

Ret(op, val, timed_out) == [op |-> op, val |-> val, timed_out |-> timed_out]

\* evolution_thread_.joinable()
Joinable == wpc # "none"

\* stop(): the guard of the join
\* stop() without the joinable() / thread-id test: it never joins
ShouldJoinNever(caller) == FALSE

\* stop() without the thread-id test: it joins whoever calls it
ShouldJoinAlways(caller) == Joinable

ShouldJoin(caller) == Joinable /\ caller # "worker"

EngineInit ==
    /\ running = FALSE
    /\ paused = FALSE
    /\ should_stop = FALSE
    /\ total_generations = 0
    /\ history = <<>>
    /\ callback \in {"none", "stopper"}
    /\ max_generations \in MaxGenerationsChoices
    /\ enable_save_state \in BOOLEAN
    /\ save_interval \in SaveIntervalChoices
    /\ checkpoint \in InitialCheckpoints
    /\ env_generation = 0
    /\ wpc = "none"
    /\ gen_result = FALSE
    /\ crashed = FALSE
    /\ cpc = "idle"
    /\ ret = Ret("none", FALSE, FALSE)
    /\ call = "none"
    /\ ops = 0
    /\ stats_snapshot = EngineStats(0, 0)
    /\ pause_gen = 0
    /\ update_failed = FALSE
    /\ stopped = FALSE
    /\ stop_on_worker = FALSE

\* the engine before start(), with no callback and no checkpoint
EngineIdle ==
    /\ EngineInit
    /\ callback = "none"
    /\ max_generations = 0
    /\ enable_save_state = FALSE
    /\ checkpoint = NoCheckpoint

\* the client thread waits in join() inside an event callback, under the
\* lock_guard of the call that emitted the event: mutex_ is held
ClientHoldsLock == cpc = "callback_join"

\* A call made by the client thread (the model stops calling after MaxOps)
ClientCall(name) ==
    /\ cpc = "idle"
    /\ ~crashed
    /\ ops < MaxOps
    /\ ops' = ops + 1
    /\ call' = name

\* the engine's configuration and the environment's own state: no step of the
\* engine model changes them
restVars == <<callback, max_generations, enable_save_state, save_interval,
                envVars>>

\* ---- start()
\* the automatic resume: loadState(checkpoint.json) when the file exists
StartLoaded == checkpoint # NoCheckpoint

\* start() that loads the checkpoint and keeps its own generation count
StartGenerationKept == total_generations

StartGeneration == IF StartLoaded THEN checkpoint ELSE total_generations

StartHistory ==
    IF StartLoaded
    THEN PushHistory(history, Event("STATE_LOADED", checkpoint))
    ELSE history

\* start() on a running engine
StartNoop ==
    /\ ClientCall("start")
    /\ running
    /\ ret' = Ret("start", FALSE, FALSE)
    /\ UNCHANGED <<running, paused, should_stop, total_generations, history,
                   checkpoint, env_generation, wpc, gen_result, crashed, cpc,
                   pause_gen, update_failed, stopped, stop_on_worker,
                   stats_snapshot,
                   restVars>>

\* start() on a stopped engine; assigning a new std::thread to a joinable
\* evolution_thread_ calls std::terminate
Start ==
    /\ ClientCall("start")
    /\ ~running
    /\ total_generations' = StartGeneration
    /\ env_generation' = IF StartLoaded THEN checkpoint ELSE env_generation
    /\ running' = TRUE
    /\ paused' = FALSE
    /\ should_stop' = FALSE
    /\ IF Joinable
       THEN /\ crashed' = TRUE
            /\ history' = StartHistory
            /\ UNCHANGED <<wpc, ret>>
       ELSE /\ wpc' = "top"
            /\ history' = PushHistory(StartHistory, Event("ENGINE_STARTED", 0))
            /\ ret' = Ret("start", TRUE, FALSE)
            /\ UNCHANGED crashed
    /\ update_failed' = FALSE
    /\ stopped' = FALSE
    /\ stop_on_worker' = FALSE
    /\ UNCHANGED <<checkpoint, gen_result, cpc, pause_gen, stats_snapshot,
                   restVars>>

\* start() whose std::thread constructor throws: the catch block
StartFail ==
    /\ ClientCall("start")
    /\ ~running
    /\ total_generations' = StartGeneration
    /\ env_generation' = IF StartLoaded THEN checkpoint ELSE env_generation
    /\ history' = StartHistory
    /\ running' = FALSE
    /\ paused' = FALSE
    /\ should_stop' = FALSE
    /\ ret' = Ret("start", FALSE, FALSE)
    /\ stopped' = FALSE
    /\ UNCHANGED <<checkpoint, wpc, gen_result, crashed, cpc, pause_gen,
                   update_failed, stop_on_worker, stats_snapshot,
                   restVars>>

\* ---- stop() on the client thread
StopNoop ==
    /\ ClientCall("stop")
    /\ ~running
    /\ ret' = Ret("stop", FALSE, FALSE)
    /\ UNCHANGED <<running, paused, should_stop, total_generations, history,
                   checkpoint, env_generation, wpc, gen_result, crashed, cpc,
                   pause_gen, update_failed, stopped, stop_on_worker,
                   stats_snapshot,
                   restVars>>

\* first locked block: should_stop_ = true; cv_.notify_all()
StopRequest ==
    /\ ClientCall("stop")
    /\ running
    /\ should_stop' = TRUE
    /\ cpc' = "stop_join"
    /\ UNCHANGED <<running, paused, total_generations, history, checkpoint,
                   env_generation, wpc, gen_result, crashed, ret, pause_gen,
                   update_failed, stopped, stop_on_worker, stats_snapshot,
                   restVars>>

\* the join (it returns once the worker has left evolutionLoop), then the
\* second locked block and ENGINE_STOPPED
StopJoin ==
    /\ cpc = "stop_join"
    /\ ~crashed
    /\ ShouldJoin("client") => wpc = "done"
    /\ wpc' = IF ShouldJoin("client") THEN "none" ELSE wpc
    /\ running' = FALSE
    /\ paused' = FALSE
    /\ history' = PushHistory(history, Event("ENGINE_STOPPED", total_generations))
    /\ ret' = Ret("stop", TRUE, FALSE)
    /\ cpc' = "idle"
    /\ stopped' = TRUE
    /\ UNCHANGED <<should_stop, total_generations, checkpoint, env_generation,
                   gen_result, crashed, call, ops, pause_gen, update_failed,
                   stop_on_worker, stats_snapshot,
                   restVars>>

\* ---- pause()
\* pause() without the running_ test
PauseRefusedWhenPaused == paused

PauseRefused == ~running \/ paused

PauseNoop ==
    /\ ClientCall("pause")
    /\ PauseRefused
    /\ ret' = Ret("pause", FALSE, FALSE)
    /\ UNCHANGED <<running, paused, should_stop, total_generations, history,
                   checkpoint, env_generation, wpc, gen_result, crashed, cpc,
                   pause_gen, update_failed, stopped, stop_on_worker,
                   stats_snapshot,
                   restVars>>

Pause ==
    /\ ClientCall("pause")
    /\ ~PauseRefused
    /\ paused' = TRUE
    /\ history' = PushHistory(history, Event("ENGINE_PAUSED", total_generations))
    /\ ret' = Ret("pause", TRUE, FALSE)
    /\ pause_gen' = total_generations
    /\ UNCHANGED <<running, should_stop, total_generations, checkpoint,
                   env_generation, wpc, gen_result, crashed, cpc,
                   update_failed, stopped, stop_on_worker, stats_snapshot,
                   restVars>>

\* ---- resume()
\* resume() without the paused_ test
ResumeRefusedWhenStopped == ~running

ResumeRefused == ~running \/ ~paused

ResumeNoop ==
    /\ ClientCall("resume")
    /\ ResumeRefused
    /\ ret' = Ret("resume", FALSE, FALSE)
    /\ UNCHANGED <<running, paused, should_stop, total_generations, history,
                   checkpoint, env_generation, wpc, gen_result, crashed, cpc,
                   pause_gen, update_failed, stopped, stop_on_worker,
                   stats_snapshot,
                   restVars>>

Resume ==
    /\ ClientCall("resume")
    /\ ~ResumeRefused
    /\ paused' = FALSE
    /\ history' = PushHistory(history, Event("ENGINE_RESUMED", total_generations))
    /\ ret' = Ret("resume", TRUE, FALSE)
    /\ UNCHANGED <<running, should_stop, total_generations, checkpoint,
                   env_generation, wpc, gen_result, crashed, cpc, pause_gen,
                   update_failed, stopped, stop_on_worker, stats_snapshot,
                   restVars>>

\* ---- pause() or resume() with a callback that calls stop() when it is
\* handed the event: emitEvent runs the callback on the calling thread, under
\* the lock_guard of pause() / resume(); stop() sets should_stop_ in its first
\* locked block (mutex_ is recursive) and goes on to the join
CallbackStops ==
    /\ callback = "stopper"
    /\ \E name \in {"pause", "resume"} :
         /\ ClientCall(name)
         /\ IF name = "pause" THEN ~PauseRefused ELSE ~ResumeRefused
         /\ paused' = (name = "pause")
         /\ pause_gen' = IF name = "pause" THEN total_generations ELSE pause_gen
    /\ should_stop' = TRUE
    /\ cpc' = "callback_join"
    /\ UNCHANGED <<running, total_generations, history, checkpoint,
                   env_generation, wpc, gen_result, crashed, ret,
                   update_failed, stopped, stop_on_worker, stats_snapshot,
                   restVars>>

\* the join of that stop() returns: its second locked block and
\* ENGINE_STOPPED, then the callback returns and emitEvent appends the event
\* of pause() / resume()
CallbackJoin ==
    /\ cpc = "callback_join"
    /\ ~crashed
    /\ ShouldJoin("client") => wpc = "done"
    /\ wpc' = IF ShouldJoin("client") THEN "none" ELSE wpc
    /\ running' = FALSE
    /\ paused' = FALSE
    /\ history' =
         PushHistory(PushHistory(history,
                                 Event("ENGINE_STOPPED", total_generations)),
                     Event(IF call = "pause" THEN "ENGINE_PAUSED"
                           ELSE "ENGINE_RESUMED", total_generations))
    /\ ret' = Ret(call, TRUE, FALSE)
    /\ cpc' = "idle"
    /\ stopped' = TRUE
    /\ UNCHANGED <<should_stop, total_generations, checkpoint, env_generation,
                   gen_result, crashed, call, ops, pause_gen, update_failed,
                   stop_on_worker, stats_snapshot,
                   restVars>>

\* ---- waitForCompletion(timeout_ms)
WaitBegin ==
    /\ ClientCall("waitForCompletion")
    /\ cpc' = "wait_loop"
    /\ UNCHANGED <<running, paused, should_stop, total_generations, history,
                   checkpoint, env_generation, wpc, gen_result, crashed, ret,
                   pause_gen, update_failed, stopped, stop_on_worker,
                   stats_snapshot,
                   restVars>>

\* while (running_ && !should_stop_)
WaitLoopCondition == running /\ ~should_stop

\* inside the loop with timeout_ms > 0 and the time elapsed: return false
WaitTimeout ==
    /\ cpc = "wait_loop"
    /\ ~crashed
    /\ WaitLoopCondition
    /\ ret' = Ret("waitForCompletion", FALSE, TRUE)
    /\ cpc' = "idle"
    /\ UNCHANGED <<running, paused, should_stop, total_generations, history,
                   checkpoint, env_generation, wpc, gen_result, crashed, call,
                   ops, pause_gen, update_failed, stopped, stop_on_worker,
                   stats_snapshot,
                   restVars>>

\* the loop condition is found false
WaitLoopExit ==
    /\ cpc = "wait_loop"
    /\ ~crashed
    /\ ~WaitLoopCondition
    /\ cpc' = "wait_return"
    /\ UNCHANGED <<running, paused, should_stop, total_generations, history,
                   checkpoint, env_generation, wpc, gen_result, crashed, ret,
                   call, ops, pause_gen, update_failed, stopped,
                   stop_on_worker, stats_snapshot,
                   restVars>>

\* return !running_
WaitResult == ~running

WaitReturn ==
    /\ cpc = "wait_return"
    /\ ~crashed
    /\ ret' = Ret("waitForCompletion", WaitResult, FALSE)
    /\ cpc' = "idle"
    /\ UNCHANGED <<running, paused, should_stop, total_generations, history,
                   checkpoint, env_generation, wpc, gen_result, crashed, call,
                   ops, pause_gen, update_failed, stopped, stop_on_worker,
                   stats_snapshot,
                   restVars>>

\* ---- loadState(filename), here of the checkpoint file
\* loadState() without the running_ test
LoadStateNeverRefused == FALSE

LoadStateRefused == running

\* loadState() on a running engine
LoadStateNoop ==
    /\ ClientCall("loadState")
    /\ LoadStateRefused
    /\ ret' = Ret("loadState", FALSE, FALSE)
    /\ UNCHANGED <<running, paused, should_stop, total_generations, history,
                   checkpoint, env_generation, wpc, gen_result, crashed, cpc,
                   pause_gen, update_failed, stopped, stop_on_worker,
                   stats_snapshot, restVars>>

\* loadState() on a stopped engine: environment_->loadState, then stats_ is
\* reset and synchronised with the environment and STATE_LOADED is emitted;
\* false with nothing changed when the file cannot be read
LoadState ==
    /\ ClientCall("loadState")
    /\ ~LoadStateRefused
    /\ IF checkpoint = NoCheckpoint
       THEN /\ ret' = Ret("loadState", FALSE, FALSE)
            /\ UNCHANGED <<total_generations, env_generation, history>>
       ELSE /\ env_generation' = checkpoint
            /\ total_generations' = checkpoint
            /\ history' = PushHistory(history, Event("STATE_LOADED", checkpoint))
            /\ ret' = Ret("loadState", TRUE, FALSE)
    /\ UNCHANGED <<running, paused, should_stop, checkpoint, wpc, gen_result,
                   crashed, cpc, pause_gen, update_failed, stopped,
                   stop_on_worker, stats_snapshot, restVars>>

\* ---- getStats(): stats_ copied under the engine's mutex, the population and
\* fitness figures fetched from environment_->getStats()
GetStats ==
    /\ ClientCall("getStats")
    /\ stats_snapshot' = EngineStats(total_generations, env_generation)
    /\ ret' = Ret("getStats", TRUE, FALSE)
    /\ UNCHANGED <<running, paused, should_stop, total_generations, history,
                   checkpoint, env_generation, wpc, gen_result, crashed, cpc,
                   pause_gen, update_failed, stopped, stop_on_worker,
                   restVars>>

\* ---- the worker: evolutionLoop and run_generation_
clientVars == <<cpc, ret, call, ops, stats_snapshot, pause_gen, stopped>>

workerKeeps == <<crashed, stop_on_worker, clientVars, restVars>>

\* top of the loop, under the lock: break / wait / go on to run_generation_
LoopTop ==
    /\ wpc = "top"
    /\ ~crashed
    /\ ~ClientHoldsLock
    /\ wpc' = IF should_stop THEN "done" ELSE IF paused THEN "wait" ELSE "check"
    /\ UNCHANGED <<running, paused, should_stop, total_generations, history,
                   checkpoint, env_generation, gen_result, update_failed,
                   workerKeeps>>

\* cv_.wait(lock, [this] { return !paused_ || should_stop_; })
LoopWake ==
    /\ wpc = "wait"
    /\ ~crashed
    /\ ~ClientHoldsLock
    /\ ~paused \/ should_stop
    /\ wpc' = IF should_stop THEN "done" ELSE "top"
    /\ UNCHANGED <<running, paused, should_stop, total_generations, history,
                   checkpoint, env_generation, gen_result, update_failed,
                   workerKeeps>>

\* run_generation_'s unlocked entry check
EntryRefused == ~running \/ paused \/ should_stop

RunGenerationEntry ==
    /\ wpc = "check"
    /\ ~crashed
    /\ IF EntryRefused
       THEN gen_result' = FALSE /\ wpc' = "post"
       ELSE gen_result' = gen_result /\ wpc' = "update"
    /\ UNCHANGED <<running, paused, should_stop, total_generations, history,
                   checkpoint, env_generation, update_failed, workerKeeps>>

\* environment_->update() returns true: the environment is one generation on
UpdateOk ==
    /\ wpc = "update"
    /\ ~crashed
    /\ env_generation < MaxGen
    /\ env_generation' = env_generation + 1
    /\ wpc' = "commit"
    /\ UNCHANGED <<running, paused, should_stop, total_generations, history,
                   checkpoint, gen_result, update_failed, workerKeeps>>

\* environment_->update() returns false: ERROR_OCCURRED, return false
UpdateFails ==
    /\ wpc = "update"
    /\ ~crashed
    /\ ~ClientHoldsLock
    /\ history' = PushHistory(history, Event("ERROR_OCCURRED", total_generations))
    /\ gen_result' = FALSE
    /\ update_failed' = TRUE
    /\ wpc' = "post"
    /\ UNCHANGED <<running, paused, should_stop, total_generations, checkpoint,
                   env_generation, workerKeeps>>

\* a periodic task that saves after every generation
SaveDueAlways(g) == enable_save_state

\* performPeriodicTasks: the checkpoint is due after generation g
SaveDue(g) == enable_save_state /\ g % save_interval = 0

\* the max-generations stopping criterion after generation g
LimitReached(g) == max_generations > 0 /\ g >= max_generations

\* the locked block of run_generation_ with should_stop_ already set
CommitRefused ==
    /\ wpc = "commit"
    /\ ~crashed
    /\ ~ClientHoldsLock
    /\ should_stop
    /\ gen_result' = FALSE
    /\ wpc' = "post"
    /\ UNCHANGED <<running, paused, should_stop, total_generations, history,
                   checkpoint, env_generation, update_failed, workerKeeps>>

\* the locked block of run_generation_: count the generation, emit
\* GENERATION_COMPLETED (the callback runs first, on this thread, and may call
\* stop()), the periodic checkpoint, the max-generations check
Commit ==
    /\ wpc = "commit"
    /\ ~crashed
    /\ ~ClientHoldsLock
    /\ ~should_stop
    /\ \E calls_stop \in (IF callback = "stopper" THEN BOOLEAN ELSE {FALSE}) :
        LET g == total_generations + 1
            stops == calls_stop /\ running
            h1 == IF stops
                  THEN PushHistory(history, Event("ENGINE_STOPPED", g))
                  ELSE history
            h2 == PushHistory(h1, Event("GENERATION_COMPLETED", g))
            h3 == IF SaveDue(g)
                  THEN PushHistory(h2, Event("STATE_SAVED", g))
                  ELSE h2
        IN  /\ total_generations' = g
            /\ stop_on_worker' = calls_stop
            /\ IF stops /\ ShouldJoin("worker")
               THEN \* the worker joins itself inside the callback
                    /\ wpc' = "self_join"
                    /\ should_stop' = TRUE
                    /\ UNCHANGED <<running, paused, history, checkpoint, gen_result>>
               ELSE /\ running' = IF stops THEN FALSE ELSE running
                    /\ paused' = IF stops THEN FALSE ELSE paused
                    /\ should_stop' = (stops \/ LimitReached(g))
                    /\ history' = h3
                    /\ checkpoint' = IF SaveDue(g) THEN env_generation ELSE checkpoint
                    /\ gen_result' = TRUE
                    /\ wpc' = "post"
    /\ UNCHANGED <<env_generation, crashed, update_failed, clientVars, restVars>>

\* if (!gen_result || should_stop_) break; else sleep and loop
LoopBottom ==
    /\ wpc = "post"
    /\ ~crashed
    /\ wpc' = IF ~gen_result \/ should_stop THEN "done" ELSE "top"
    /\ UNCHANGED <<running, paused, should_stop, total_generations, history,
                   checkpoint, env_generation, gen_result, update_failed,
                   workerKeeps>>

Worker ==
    \/ LoopTop \/ LoopWake \/ RunGenerationEntry
    \/ UpdateOk \/ UpdateFails
    \/ CommitRefused \/ Commit
    \/ LoopBottom

Client ==
    \/ StartNoop \/ Start \/ StartFail
    \/ StopNoop \/ StopRequest \/ StopJoin
    \/ PauseNoop \/ Pause
    \/ ResumeNoop \/ Resume
    \/ WaitBegin \/ WaitTimeout \/ WaitLoopExit \/ WaitReturn
    \/ LoadStateNoop \/ LoadState
    \/ GetStats

Next == Client \/ Worker


\* ---------------------------------------------------------------- Environment

\* ------------------------------------------------------ configurations tried
EliteCounts == {0, 1}                \* config_.elite_count
MaxPopulations == {2}                \* config_.max_population
MinPopulations == {1}                \* config_.min_population
ResourceAbundances == {1, 10}        \* config_.resource_abundance, in tenths
ImmigrationChances == {0, 5}         \* config_.immigration_chance, in tenths
CompetitionIntensities == {5}        \* config_.competition_intensity, in tenths
\* (enable_aging, enable_competition, enable_cooperation, enable_predation,
\*  enable_random_catastrophes)
PressureFlags ==
    { <<FALSE, FALSE, FALSE, FALSE, FALSE>>,
      <<TRUE, FALSE, FALSE, FALSE, FALSE>>,
      <<FALSE, TRUE, TRUE, FALSE, FALSE>>,
      <<FALSE, FALSE, FALSE, TRUE, TRUE>> }

PopFitnessScores == {1, 9}   \* fitness given to organisms added by hand
FitnessScores == {0, 10}  \* what evaluateFitness returns, in tenths: 0.0, 1.0
CooperationBonus == 1     \* config_.cooperation_bonus, in tenths

EnvConfigs ==
    { [ max_population |-> mx, min_population |-> mn, elite_count |-> el,
        resource_abundance |-> ra, immigration_chance |-> im,
        competition_intensity |-> ci,
        enable_aging |-> fl[1], enable_competition |-> fl[2],
        enable_cooperation |-> fl[3], enable_predation |-> fl[4],
        enable_random_catastrophes |-> fl[5] ] :
      mx \in MaxPopulations, mn \in MinPopulations, el \in EliteCounts,
      ra \in ResourceAbundances, im \in ImmigrationChances,
      ci \in CompetitionIntensities, fl \in PressureFlags }

EnvironmentStats(generation, size, births, deaths, created, died) ==
    [ generation |-> generation, population_size |-> size,
      births_this_gen |-> births, deaths_this_gen |-> deaths,
      total_organisms_created |-> created, total_organisms_died |-> died ]

Min(a, b) == IF a < b THEN a ELSE b
Max(a, b) == IF a > b THEN a ELSE b

Size(pop) == Cardinality(DOMAIN pop)

Restrict(pop, ids) == [i \in ids |-> pop[i]]

Without(pop, ids) == Restrict(pop, DOMAIN pop \ ids)

\* the subsets of S with k elements, built from the smaller of the two sides
SubsetsOfSize(S, k) ==
    LET RECURSIVE Picked(_)
        Picked(j) ==
            IF j = 0 THEN {{}}
            ELSE UNION { {T \cup {x} : x \in S \ T} : T \in Picked(j - 1) }
    IN  IF k > Cardinality(S) THEN {}
        ELSE IF 2 * k <= Cardinality(S) THEN Picked(k)
        ELSE {S \ T : T \in Picked(Cardinality(S) - k)}

\* a call of getTopFittest(count) and the ids it returned, in order
TopFittest(count, result) == [count |-> count, result |-> result]

\* ---- the checkpoint file: what saveState writes of the environment
SupportedVersions == {"ENVIRONMENT_STATE_V4", "ENVIRONMENT_STATE_V3"}

CheckpointFile(c, stats, orgs) ==
    [ exists |-> TRUE, version |-> "ENVIRONMENT_STATE_V4",
      has_config |-> TRUE, has_stats |-> TRUE, rng_state |-> "saved",
      config |-> c, stats |-> stats, organisms |-> orgs ]

\* no file of that name
NoFile ==
    [ exists |-> FALSE, version |-> "UNKNOWN",
      has_config |-> FALSE, has_stats |-> FALSE, rng_state |-> "missing",
      config |-> CHOOSE c \in EnvConfigs : TRUE,
      stats |-> EnvironmentStats(0, 0, 0, 0, 0, 0), organisms |-> <<>> ]

\* checkpoints an earlier process of the program left behind: one organism
\* (id 2) or two (ids 1 and 3) alive out of three created, no pressure enabled
EarlierCheckpoints ==
    { CheckpointFile(c, EnvironmentStats(1, Size(orgs), 1, 0, 3, 3 - Size(orgs)), orgs) :
        c \in { k \in EnvConfigs :
                   /\ ~k.enable_aging /\ ~k.enable_competition
                   /\ ~k.enable_predation /\ k.resource_abundance = 10 },
        orgs \in { (2 :> 10), (1 :> 0 @@ 3 :> 10) } }

\* a call of addOrganism / removeOrganism: the id it was given (0: a null
\* pointer) and what it returned
PopCall(op, id, val) == [op |-> op, id |-> id, val |-> val]

\* ---- BytecodeVM

\* getOperandSize: 1 for PUSH, JMP, JZ, JNZ, CALL, LOAD, STORE, SET_X, SET_Y;
\* 0 for the other opcodes (0x00..0x21 and HALT = 0xFF); -1 for an unknown one
OperandSize(op) ==
    IF op \in {1, 12, 13, 14, 15, 17, 18, 20, 21} THEN 1
    ELSE IF op \in 0..33 \cup {255} THEN 0
    ELSE -1

\* a & b, a | b, a ^ b on uint8_t (op: AND = 8, OR = 9, XOR = 10)
RECURSIVE Bitwise(_, _, _, _)
Bitwise(op, a, b, bits) ==
    IF bits = 0 THEN 0
    ELSE LET x == a % 2
             y == b % 2
             z == IF op = 8 THEN x * y
                  ELSE IF op = 9 THEN Max(x, y)
                  ELSE (x + y) % 2
         IN  z + 2 * Bitwise(op, a \div 2, b \div 2, bits - 1)

\* static_cast<uint8_t>(op(a, b)) of ADD .. XOR, b # 0 for DIV and MOD
BinaryResult(op, a, b) ==
    CASE op = 3 -> (a + b) % 256
      [] op = 4 -> (a - b + 256) % 256
      [] op = 5 -> (a * b) % 256
      [] op = 6 -> a \div b
      [] op = 7 -> a % b
      [] OTHER -> Bitwise(op, a, b, 8)

\* the values an instruction pops before it does anything else
Pops(op) ==
    CASE op \in {2, 11, 18, 22, 23, 24, 29} -> 1
      [] op \in 3..10 \cup {27, 30, 31} -> 2
      [] op = 28 -> 3
      [] op = 32 -> 4
      [] op = 33 -> 6
      [] OTHER -> 0

\* executeInstruction returning true: the program counter and the stack move on
VmOk(v, pc, stack) == [v EXCEPT !.ok = TRUE, !.pc = pc, !.stack = stack]

\* executeInstruction returning false with an error message
VmFault(v, stack, message) ==
    [v EXCEPT !.ok = FALSE, !.stack = stack, !.error_message = message]

\* pushStack of each of vals in turn, then pc
VmPush(v, stack, vals, pc) ==
    LET room == Max(0, v.stack_size - Len(stack))
    IN  IF room < Len(vals)
        THEN VmFault(v, stack \o SubSeq(vals, 1, room), "Stack overflow")
        ELSE VmOk(v, pc, stack \o vals)

\* drawCircle and drawRectangle: a position beyond INT_MAX is recorded in
\* error_message and the call returns; the instruction goes on as usual.
\* A uint32_t coordinate is kept as its two 16-bit halves <<high, low>>, so
\* that x > INT_MAX is: the top bit of the high half is set.
DrawAtPosition(v) ==
    LET BeyondIntMax(x) == x[1] >= 32768
    IN  IF BeyondIntMax(v.x) \/ BeyondIntMax(v.y)
        THEN [v EXCEPT !.error_message =
                         "X or Y coordinate out of range for int conversion"]
        ELSE v

\* executeInstruction(opcode, operand); r is what rng_() % 256 gives RANDOM.
\* The colour and the canvas decide nothing here and are left out.
ExecuteInstruction(v, opcode, operand, r) ==
    LET s == v.stack
        n == Len(s)
        k == Pops(opcode)
        rest == SubSeq(s, 1, n - k)
        a == IF n >= 2 THEN s[n - 1] ELSE 0
        b == IF n >= 1 THEN s[n] ELSE 0
    IN  IF OperandSize(opcode) = -1
        THEN VmFault(v, s, "Unknown opcode")
        ELSE IF n < k \/ (opcode \in {13, 14, 26} /\ n = 0)
        THEN VmFault(v, <<>>,
                     CASE opcode = 31 -> "Stack underflow for DRAW_LINE"
                       [] opcode = 32 -> "Stack underflow for DRAW_BEZIER_CURVE"
                       [] opcode = 33 -> "Stack underflow for DRAW_TRIANGLE"
                       [] OTHER -> "Stack underflow")
        ELSE CASE opcode = 255 -> [v EXCEPT !.ok = FALSE, !.running = FALSE]
               [] opcode = 1 -> VmPush(v, s, <<operand>>, v.pc + 2)
               [] opcode \in {6, 7} /\ b = 0 ->
                    VmFault(v, rest, IF opcode = 6 THEN "Division by zero"
                                     ELSE "Modulo by zero")
               [] opcode \in 3..10 /\ ~(opcode \in {6, 7} /\ b = 0) ->
                    VmPush(v, rest, <<BinaryResult(opcode, a, b)>>, v.pc + 1)
               [] opcode = 11 -> VmPush(v, rest, <<255 - b>>, v.pc + 1)
               [] opcode \in {12, 15} -> VmOk(v, operand, s)
               [] opcode = 13 -> VmOk(v, IF b = 0 THEN operand ELSE v.pc + 2, s)
               [] opcode = 14 -> VmOk(v, IF b # 0 THEN operand ELSE v.pc + 2, s)
               [] opcode = 17 ->
                    IF operand < Len(v.memory)
                    THEN VmPush(v, s, <<v.memory[operand + 1]>>, v.pc + 2)
                    ELSE VmFault(v, s, "Memory access out of bounds")
               [] opcode = 18 ->
                    IF operand < Len(v.memory)
                    THEN [VmOk(v, v.pc + 2, rest) EXCEPT
                            !.memory = [@ EXCEPT ![operand + 1] = b]]
                    ELSE VmFault(v, rest, "Memory access out of bounds")
               [] opcode = 20 ->
                    [VmOk(v, v.pc + 2, s) EXCEPT !.x = <<0, operand>>]
               [] opcode = 21 ->
                    [VmOk(v, v.pc + 2, s) EXCEPT !.y = <<0, operand>>]
               [] opcode = 25 -> VmPush(v, s, <<r>>, v.pc + 1)
               [] opcode = 26 -> VmPush(v, s, <<b>>, v.pc + 1)
               [] opcode = 27 -> VmPush(v, rest, <<b, a>>, v.pc + 1)
               [] opcode = 28 -> VmPush(v, rest, <<a, b, s[n - 2]>>, v.pc + 1)
               [] opcode \in {29, 30} -> VmOk(DrawAtPosition(v), v.pc + 1, rest)
               [] OTHER -> VmOk(v, v.pc + 1, rest)

\* the VM configurations tried: memory_size, stack_size, max_instructions
VmConfigs ==
    { [memory_size |-> 6, stack_size |-> 2, max_instructions |-> 8],
      [memory_size |-> 2, stack_size |-> 1, max_instructions |-> 1] }

\* the bytes programs are made of: NOP, PUSH, DIV, MOD, JMP, LOAD, DUP, an
\* unknown opcode (0x22) and HALT; as operands: 0, 1, 6, 7, 12, 17, 26, 34, 255
VmBytes == {0, 1, 6, 7, 12, 17, 26, 34, 255}

VmPrograms == UNION { [1..n -> VmBytes] : n \in 0..MaxProgLen }

\* a VM constructed with configuration c (initializeState), about to be
\* given bytecode
VmConstructed(c, bytecode) ==
    [ phase |-> "constructed", bytecode |-> bytecode,
      memory_size |-> c.memory_size, stack_size |-> c.stack_size,
      max_instructions |-> c.max_instructions,
      memory |-> [i \in 1..c.memory_size |-> 0], pc |-> 0, stack |-> <<>>,
      x |-> <<0, 0>>, y |-> <<0, 0>>,
      running |-> TRUE, ok |-> TRUE,
      instructions_executed |-> 0, halted_normally |-> FALSE,
      error_message |-> "" ]

\* no single call made yet
\* a call of an Organism method: its object, its argument, the id of the
\* organism it made (0: none) and where it stands
OrgCall(op, this, other, child, pc) ==
    [op |-> op, this |-> this, other |-> other, child |-> child, pc |-> pc]

\* no Organism constructed yet
OrgIdle ==
    /\ organisms = <<>>
    /\ org_call = OrgCall("none", 0, 0, 0, "returned")

UnitIdle ==
    /\ OrgIdle
    /\ pop_call = PopCall("none", 0, FALSE)
    /\ vm = VmConstructed(CHOOSE c \in VmConfigs : TRUE, <<>>)

\* an environment constructed and not initialized: no organisms
EnvEmpty ==
    /\ file = NoFile
    /\ population = <<>>
    /\ next_id = 1
    /\ env_stats = EnvironmentStats(0, 0, 0, 0, 0, 0)
    /\ upc = "idle"
    /\ mutex = "free"
    /\ snapshot = {}
    /\ elites = <<>>
    /\ initial_size = 0
    /\ last_update = "none"
    /\ loads = 0
    /\ load_result = "none"
    /\ top = TopFittest(0, <<>>)
    /\ elite_ids = {}
    /\ overwritten = {}

\* the environment while the engine model runs: not looked at
EnvIdle ==
    /\ EnvEmpty
    /\ UnitIdle
    /\ cfg \in {CHOOSE c \in EnvConfigs : TRUE}

\* initialize(): initial_population organisms with ids 1..n and fitness 0
EnvStart ==
    /\ cfg \in EnvConfigs
    /\ \E n \in 0..MaxInitPop :
        /\ population = [i \in 1..n |-> 0]
        /\ next_id = n + 1
        /\ env_stats = EnvironmentStats(0, n, 0, 0, n, 0)
    /\ upc = "idle"
    /\ mutex = "free"
    /\ snapshot = {}
    /\ elites = <<>>
    /\ initial_size = 0
    /\ last_update = "none"
    /\ loads = 0
    /\ load_result = "none"
    /\ top = TopFittest(0, <<>>)
    /\ UnitIdle
    /\ elite_ids = {}
    /\ overwritten = {}

\* what no step of update() touches
envKeeps == <<engineVars, cfg, file, loads, load_result, top, unitVars>>

\* ---- Environment::loadState: the file is read and parsed, the version is
\* tested, then population_ and stats_ are cleared and the fields are read in
\* the order config, vm_config / analyzer_config / stats, rng_state, organisms;
\* a missing field throws and false is returned from where the load stood.
\* Every organism read is first constructed (taking an id from next_id_) and
\* then given the id of the file.
EnvLoadState ==
    /\ upc = "idle"
    /\ loads < MaxLoads
    /\ loads' = loads + 1
    /\ IF ~file.exists \/ file.version \notin SupportedVersions
       THEN /\ load_result' = "failed"
            /\ UNCHANGED <<population, next_id, env_stats, cfg>>
       ELSE IF ~file.has_config
       THEN /\ load_result' = "failed"
            /\ population' = <<>>
            /\ env_stats' = EnvironmentStats(0, 0, 0, 0, 0, 0)
            /\ UNCHANGED <<next_id, cfg>>
       ELSE IF ~file.has_stats
       THEN /\ load_result' = "failed"
            /\ population' = <<>>
            /\ env_stats' = EnvironmentStats(0, 0, 0, 0, 0, 0)
            /\ cfg' = file.config
            /\ UNCHANGED next_id
       ELSE /\ load_result' = "ok"
            /\ population' = file.organisms
            /\ next_id' = next_id + Size(file.organisms)
            /\ cfg' = file.config
            \* updateStats()
            /\ env_stats' = [file.stats EXCEPT
                               !.population_size = Size(file.organisms)]
    /\ UNCHANGED <<upc, mutex, snapshot, elites, initial_size, last_update, file,
                   elite_ids, overwritten, top, unitVars,
                   engineVars>>

\* start()'s automatic resume: the checkpoint is loaded before any update()
EnvResume == last_update = "none" /\ EnvLoadState

\* one lock_guard for the whole of update()
UpdateLockKept(pc) == IF pc = "idle" THEN "free" ELSE "update"

\* mutex_ when update() stands at pc: the lock_guard of the snapshot block is
\* gone when the block is left, that of the third block lives from the
\* elitism to the end of the reproduction
UpdateLock(pc) ==
    IF pc \in {"scarcity", "catastrophe", "predation", "aging", "competition",
               "reproduce"}
    THEN "update" ELSE "free"

\* ---- getStats() on another thread: takes mutex_ and copies stats_; the
\* call is recorded with the generation it saw and whether an update() was
\* under way
EnvGetStats ==
    /\ mutex = "free"
    /\ pop_call' = PopCall("getStats", env_stats.generation, upc # "idle")
    /\ UNCHANGED <<vm, organisms, org_call, envState, engineVars>>

\* ---- getPopulation() on another thread: a reference to population_ is
\* returned and read, and mutex_ is not taken; the call is recorded with
\* whether an update() was under way
EnvGetPopulation ==
    /\ pop_call' = PopCall("getPopulation", 0, upc # "idle")
    /\ UNCHANGED <<vm, organisms, org_call, envState, engineVars>>

\* ---- update(), step 1: the snapshot (an empty population returns true)
UpdateEmpty ==
    /\ upc = "idle"
    /\ mutex = "free"
    /\ env_stats.generation < MaxEnvGen
    /\ DOMAIN population = {}
    /\ last_update' = "empty"
    /\ UNCHANGED <<population, next_id, env_stats, upc, mutex, snapshot, elites,
                   initial_size, elite_ids,
                   overwritten, envKeeps>>

UpdateSnapshot ==
    /\ upc = "idle"
    /\ mutex = "free"
    /\ env_stats.generation < MaxEnvGen
    /\ DOMAIN population # {}
    /\ snapshot' = DOMAIN population
    /\ upc' = "evaluate"
    /\ mutex' = UpdateLock("evaluate")
    /\ last_update' = "running"
    /\ UNCHANGED <<population, next_id, env_stats, elites, initial_size, elite_ids,
                   overwritten, envKeeps>>

\* ---- step 2: evaluateFitness and setFitnessScore for each snapshot organism
UpdateEvaluate ==
    /\ upc = "evaluate"
    /\ \E f \in [snapshot -> FitnessScores] :
        population' = [i \in DOMAIN population |->
                         IF i \in snapshot THEN f[i] ELSE population[i]]
    /\ upc' = "elitism"
    /\ mutex' = UpdateLock("elitism")
    /\ UNCHANGED <<next_id, env_stats, snapshot, elites, initial_size,
                   last_update, elite_ids,
                   overwritten, envKeeps>>

\* select_for_reproduction_unlocked_(count): the possible top-count selections
\* (std::sort leaves the order of equal scores open)
TopSets(pop, count) ==
    { E \in SubsetsOfSize(DOMAIN pop, Min(count, Size(pop))) :
        \A e \in E, o \in DOMAIN pop \ E : pop[e] >= pop[o] }

\* ---- step 3: the elites leave the population
UpdateElitism ==
    /\ upc = "elitism"
    /\ mutex = "free"
    /\ \E E \in TopSets(population, Min(Size(population), cfg.elite_count)) :
        /\ elites' = Restrict(population, E)
        /\ elite_ids' = E
        /\ population' = Without(population, E)
    /\ upc' = "scarcity"
    /\ mutex' = UpdateLock("scarcity")
    /\ UNCHANGED <<next_id, env_stats, snapshot, initial_size, last_update, overwritten,
                   envKeeps>>

\* remove_random_organisms_unlocked_(count): the populations it can leave
AfterRandomRemoval(pop, count) ==
    { Without(pop, V) : V \in SubsetsOfSize(DOMAIN pop, Min(count, Size(pop))) }

Died(stats, n) ==
    [stats EXCEPT !.total_organisms_died = @ + n]

\* apply_resource_scarcity_
SustainablePopulation == (cfg.max_population * cfg.resource_abundance) \div 10

UpdateScarcity ==
    /\ upc = "scarcity"
    /\ IF Size(population) > SustainablePopulation
       THEN /\ population' \in AfterRandomRemoval(population,
                                   Size(population) - SustainablePopulation)
            /\ env_stats' = Died(env_stats, Size(population) - Size(population'))
       ELSE UNCHANGED <<population, env_stats>>
    /\ upc' = "catastrophe"
    /\ mutex' = UpdateLock("catastrophe")
    /\ UNCHANGED <<next_id, snapshot, elites, initial_size, last_update, elite_ids,
                   overwritten, envKeeps>>

\* apply_random_catastrophe_: 10% of the population, at least one
CatastropheToll(n) == Max(1, n \div 10)

UpdateCatastrophe ==
    /\ upc = "catastrophe"
    /\ \/ UNCHANGED <<population, env_stats>>
       \/ /\ cfg.enable_random_catastrophes
          /\ DOMAIN population # {}
          /\ population' \in AfterRandomRemoval(population,
                                 CatastropheToll(Size(population)))
          /\ env_stats' = Died(env_stats, Size(population) - Size(population'))
    /\ upc' = "predation"
    /\ mutex' = UpdateLock("predation")
    /\ UNCHANGED <<next_id, snapshot, elites, initial_size, last_update, elite_ids,
                   overwritten, envKeeps>>

\* a predation of up to 10% of the population
PredationTollTenth(n) == Min(Max(1, n \div 10), n - 1)

\* apply_predation_: up to 5% of the population, at least one, never all.
\* static_cast<uint32_t>(static_cast<double>(n) * 0.05): the double 0.05 is
\* above 0.05 by less than 2^-57, so the product is n / 20 plus an excess
\* far below 1 / 20 and rounds to a double that is not below an integer
\* n / 20: the cast gives the quotient of n by 20
PredationToll(n) == Min(Max(1, n \div 20), n - 1)

UpdatePredation ==
    /\ upc = "predation"
    /\ IF cfg.enable_predation /\ Size(population) >= 2
       THEN \E n \in 1..PredationToll(Size(population)) :
              /\ population' \in AfterRandomRemoval(population, n)
              /\ env_stats' = Died(env_stats, n)
       ELSE UNCHANGED <<population, env_stats>>
    /\ upc' = "aging"
    /\ mutex' = UpdateLock("aging")
    /\ UNCHANGED <<next_id, snapshot, elites, initial_size, last_update, elite_ids,
                   overwritten, envKeeps>>

\* ---- performSelection: applyAging removes the organisms past max_age_ms
UpdateAging ==
    /\ upc = "aging"
    /\ initial_size' = Size(population)
    /\ IF cfg.enable_aging
       THEN \E V \in SUBSET DOMAIN population :
              /\ population' = Without(population, V)
              /\ env_stats' = Died(env_stats, Cardinality(V))
       ELSE UNCHANGED <<population, env_stats>>
    /\ upc' = "competition"
    /\ mutex' = UpdateLock("competition")
    /\ UNCHANGED <<next_id, snapshot, elites, last_update, elite_ids,
                   overwritten, envKeeps>>

\* applyCompetition: death_probability = (1 - fitness) * competition_intensity,
\* in hundredths; dist(rng_) is in [0, 1)
DeathProbability(score) == (10 - score) * cfg.competition_intensity

MayDie(score) == DeathProbability(score) > 0

MustDie(score) == DeathProbability(score) >= 100

\* applyCooperation: every score gains cooperation_bonus
Cooperated(pop) ==
    IF cfg.enable_cooperation /\ Size(pop) > 1
    THEN [i \in DOMAIN pop |-> pop[i] + CooperationBonus]
    ELSE pop

UpdateCompetition ==
    /\ upc = "competition"
    /\ IF cfg.enable_competition /\ Size(population) > 1
       THEN \E V \in SUBSET {i \in DOMAIN population : MayDie(population[i])} :
              /\ \A i \in DOMAIN population : MustDie(population[i]) => i \in V
              /\ population' = Cooperated(Without(population, V))
              /\ env_stats' = [Died(env_stats, Cardinality(V)) EXCEPT
                                 !.deaths_this_gen = initial_size - Size(population')]
       ELSE /\ population' = Cooperated(population)
            /\ env_stats' = [env_stats EXCEPT
                               !.deaths_this_gen = initial_size - Size(population)]
    /\ upc' = "reproduce"
    /\ mutex' = UpdateLock("reproduce")
    /\ UNCHANGED <<next_id, snapshot, elites, initial_size, last_update, elite_ids,
                   overwritten, envKeeps>>

\* the largest power of two not above k (1 for k < 2)
RECURSIVE HighBit(_)
HighBit(k) == IF k < 2 THEN 1 ELSE 2 * HighBit(k \div 2)

\* static_cast<uint32_t>(std::ceil(static_cast<double>(n) * 1.1)): the double
\* 1.1 is 1.1 + 2^-50 / 10, so the exact product is 1.1 n + n * 2^-50 / 10 and
\* is rounded to the nearest double (ties to even). Where 1.1 n is not an
\* integer the ceiling is that of 1.1 n; where it is an integer k, the
\* product rounds to the double above k, and the ceiling is k + 1, when the
\* excess k * 2^-50 / 11 is more than half the spacing of the doubles at k,
\* 2^-53 * HighBit(k)
CeilTimes1_1(n) ==
    LET k == (11 * n) \div 10
    IN  IF (11 * n) % 10 # 0 THEN k + 1
        ELSE IF 8 * k > 11 * HighBit(k) THEN k + 1
        ELSE k

\* performReproduction's target
TargetSize(n) ==
    Min(cfg.max_population, Max(cfg.min_population, CeilTimes1_1(n)))

\* the numbers of offspring the loop can end with, from a pool of `pool`
\* parents and a population of n: a crossover needs two parents, an immigrant
\* needs chance_dist(rng_) < immigration_chance
Births(n, pool) ==
    LET need == Max(0, TargetSize(n) - n)
    IN  IF pool >= 2 \/ cfg.immigration_chance >= 10 THEN {need}
        ELSE IF cfg.immigration_chance > 0 THEN 0..need
        ELSE {0}

\* the ids the Organism constructor gives the next b organisms
NewIds(b) == next_id..(next_id + b - 1)

\* ---- the elites return, performReproduction, the generation is counted
UpdateReproduce ==
    /\ upc = "reproduce"
    /\ LET back == [i \in DOMAIN population \cup DOMAIN elites |->
                       IF i \in DOMAIN elites THEN elites[i] ELSE population[i]]
       IN  \E b \in Births(Size(back), Size(back)) :
             \* population_[id] = organism: a new organism takes the entry of
             \* its id, whoever held it
             /\ population' = [i \in DOMAIN back \cup NewIds(b) |->
                                 IF i \in NewIds(b) THEN 0 ELSE back[i]]
             /\ overwritten' = DOMAIN back \cap NewIds(b)
             /\ next_id' = next_id + b
             /\ env_stats' = [env_stats EXCEPT
                                !.births_this_gen = b,
                                !.total_organisms_created = @ + b,
                                !.generation = @ + 1,
                                !.population_size = Size(population')]
    /\ elites' = <<>>
    /\ snapshot' = {}
    /\ upc' = "idle"
    /\ mutex' = UpdateLock("idle")
    /\ last_update' = "completed"
    /\ UNCHANGED <<initial_size, elite_ids, envKeeps>>

\* ---- update() catches an exception (std::bad_alloc of one of its vectors,
\* an exception of the VM or the analyzer): the locks and the locals go, what
\* was done to population_ and stats_ stays, and false is returned
UpdateThrows ==
    /\ upc # "idle"
    /\ upc' = "idle"
    /\ mutex' = UpdateLock("idle")
    /\ elites' = <<>>
    /\ last_update' = "failed"
    /\ UNCHANGED <<population, next_id, env_stats, snapshot, initial_size,
                   elite_ids, overwritten, envKeeps>>

EnvNext ==
    \/ EnvResume
    \/ EnvGetStats
    \/ UpdateEmpty \/ UpdateSnapshot \/ UpdateEvaluate \/ UpdateElitism
    \/ UpdateScarcity \/ UpdateCatastrophe \/ UpdatePredation
    \/ UpdateAging \/ UpdateCompetition \/ UpdateReproduce

\* ---- saveState: version, configurations, stats_, the RNG state and every
\* organism are written (nothing is written when the file cannot be opened)
EnvSaveState ==
    /\ upc = "idle"
    /\ \/ file' = CheckpointFile(cfg, env_stats, population)
       \/ UNCHANGED file
    /\ UNCHANGED <<population, next_id, env_stats, cfg, upc, mutex, snapshot, elites,
                   initial_size, last_update, loads, load_result, elite_ids,
                   overwritten, top, unitVars,
                   engineVars>>

\* what can be wrong with a checkpoint loadState is given: another version,
\* no config, no stats (or vm_config, analyzer_config), an RNG state that
\* does not parse or is not there
Damaged(f) ==
    { [f EXCEPT !.version = "ENVIRONMENT_STATE_V2"],
      [f EXCEPT !.has_config = FALSE],
      [f EXCEPT !.has_stats = FALSE],
      [f EXCEPT !.rng_state = "corrupt"],
      [f EXCEPT !.rng_state = "missing"] }

\* the file as saveState wrote it
Pristine(f) ==
    /\ f.exists
    /\ f.version \in SupportedVersions
    /\ f.has_config
    /\ f.has_stats
    /\ f.rng_state = "saved"

\* the checkpoint is damaged between a save and a load
CheckpointDamaged ==
    /\ upc = "idle"
    /\ Pristine(file)
    /\ file' \in Damaged(file)
    /\ UNCHANGED <<population, next_id, env_stats, cfg, upc, mutex, snapshot, elites,
                   initial_size, last_update, loads, load_result, elite_ids,
                   overwritten, top, unitVars,
                   engineVars>>

\* apply_resource_scarcity_, apply_random_catastrophe_ and apply_predation_
\* as functions of the population: the populations each can leave
AfterScarcity(pop) ==
    IF Size(pop) > SustainablePopulation
    THEN AfterRandomRemoval(pop, Size(pop) - SustainablePopulation)
    ELSE {pop}

AfterCatastrophe(pop) ==
    IF cfg.enable_random_catastrophes /\ DOMAIN pop # {}
    THEN {pop} \cup AfterRandomRemoval(pop, CatastropheToll(Size(pop)))
    ELSE {pop}

AfterPredation(pop) ==
    IF cfg.enable_predation /\ Size(pop) >= 2
    THEN UNION { AfterRandomRemoval(pop, n) : n \in 1..PredationToll(Size(pop)) }
    ELSE {pop}

\* ---- applyEnvironmentalPressures(): the three pressures under the lock;
\* the removals are counted in total_organisms_died, updateStats is not called
ApplyEnvironmentalPressures ==
    /\ upc = "idle"
    /\ \E p1 \in AfterScarcity(population) :
         \E p2 \in AfterCatastrophe(p1) :
           \E p3 \in AfterPredation(p2) :
             /\ population' = p3
             /\ env_stats' = Died(env_stats, Size(population) - Size(p3))
    /\ pop_call' = PopCall("applyEnvironmentalPressures", 0, TRUE)
    /\ UNCHANGED <<vm, organisms, org_call, next_id, cfg, upc, mutex, snapshot, elites, initial_size,
                   last_update, file, loads, load_result, elite_ids,
                   overwritten, top, engineVars>>

\* ---- addOrganism(organism): a null pointer (id 0), an organism just
\* constructed (the constructor took next_id_) or one that is in the
\* population already
AddOrganism ==
    /\ mutex = "free"
    /\ env_stats.total_organisms_created < MaxCreated
    /\ \E id \in {0} \cup {i \in {next_id} : i <= MaxCreated} \cup DOMAIN population :
       \E f \in PopFitnessScores :
         LET fitness == IF id \in DOMAIN population THEN population[id] ELSE f
             refused == id = 0 \/ Size(population) >= cfg.max_population
             added == (id :> fitness) @@ population
         IN  /\ next_id' = IF id = next_id THEN next_id + 1 ELSE next_id
             /\ population' = IF refused THEN population ELSE added
             /\ env_stats' =
                  IF refused THEN env_stats
                  ELSE [env_stats EXCEPT !.total_organisms_created = @ + 1,
                                         !.population_size = Size(added)]
             /\ pop_call' = PopCall("addOrganism", id, ~refused)
    /\ UNCHANGED <<vm, organisms, org_call, cfg, upc, mutex, snapshot, elites, initial_size, last_update, file,
                   loads, load_result, elite_ids, overwritten, top, engineVars>>

\* ---- removeOrganism(organism_id)
RemoveOrganism ==
    /\ mutex = "free"
    /\ \E id \in 1..next_id :
         LET found == id \in DOMAIN population
             left == Without(population, {id})
         IN  /\ population' = IF found THEN left ELSE population
             /\ env_stats' =
                  IF found
                  THEN [env_stats EXCEPT !.total_organisms_died = @ + 1,
                                         !.population_size = Size(left)]
                  ELSE env_stats
             /\ pop_call' = PopCall("removeOrganism", id, found)
    /\ UNCHANGED <<vm, organisms, org_call, next_id, cfg, upc, mutex, snapshot, elites, initial_size,
                   last_update, file, loads, load_result, elite_ids,
                   overwritten, top, engineVars>>

PopNext ==
    \/ AddOrganism
    \/ RemoveOrganism
    \/ ApplyEnvironmentalPressures

\* ---- execute(bytecode): reset(), then the first min(size, memory_size)
\* bytes are copied to memory
VmExecute ==
    /\ vm.phase = "constructed"
    /\ LET copy_size == Min(Len(vm.bytecode), vm.memory_size)
       IN  vm' = [vm EXCEPT
                    !.phase = "running",
                    !.memory = [i \in 1..vm.memory_size |->
                                  IF i <= copy_size THEN vm.bytecode[i] ELSE 0]]
    /\ UNCHANGED <<pop_call, organisms, org_call, envState, engineVars>>

\* ---- execute(bytecode, initial_state): the state is seeded, the statistics
\* are reset, running is set and the bytecode is copied. The seeds tried have
\* the configured memory, zeroed, an empty stack, pc = 0 and a drawing
\* position of x = 0 or x = 2^31.
VmExecuteSeeded ==
    /\ vm.phase = "constructed"
    /\ \E x \in {<<0, 0>>, <<32768, 0>>} :
         LET copy_size == Min(Len(vm.bytecode), vm.memory_size)
         IN  vm' = [vm EXCEPT
                      !.phase = "running",
                      !.x = x,
                      !.memory = [i \in 1..vm.memory_size |->
                                    IF i <= copy_size THEN vm.bytecode[i] ELSE 0]]
    /\ UNCHANGED <<pop_call, organisms, org_call, envState, engineVars>>

\* the budget test off by one
BudgetSpentLate(v) == v.instructions_executed > v.max_instructions

\* last_stats_.instructions_executed >= config_.max_instructions
BudgetSpent(v) == v.instructions_executed >= v.max_instructions

\* ---- one turn of executionLoop; leaving the loop sets halted_normally and
\* execute returns
VmStep ==
    /\ vm.phase = "running"
    /\ LET returned(v) == [v EXCEPT !.phase = "returned",
                                    !.halted_normally = ~v.running]
       IN  IF vm.pc >= Len(vm.memory) \/ BudgetSpent(vm)
           THEN vm' = returned(vm)
           ELSE \E r \in {0, 255} :
                  LET opcode == vm.memory[vm.pc + 1]
                      operand == IF vm.pc + 1 < Len(vm.memory)
                                 THEN vm.memory[vm.pc + 2] ELSE 0
                      v == ExecuteInstruction(vm, opcode, operand, r)
                  IN  vm' = IF v.ok
                            THEN [v EXCEPT !.instructions_executed = @ + 1]
                            ELSE returned(v)
    /\ UNCHANGED <<pop_call, organisms, org_call, envState, engineVars>>

VmNext == VmExecute \/ VmStep

\* ---- a long run seen from the history: each generation the worker commits
\* counts in total_generations and emits GENERATION_COMPLETED with the count
EmitGenerationCompleted ==
    /\ total_generations < MaxEmitted
    /\ total_generations' = total_generations + 1
    /\ history' = PushHistory(history,
                      Event("GENERATION_COMPLETED", total_generations + 1))
    /\ UNCHANGED <<running, paused, should_stop, checkpoint, env_generation,
                   wpc, gen_result, update_failed, workerKeeps>>

\* ---------------------------------------------------------------- Organism
\* BytecodeVM::validateBytecode: not empty, no unknown opcode, every
\* instruction complete
ValidateBytecode(bytecode) ==
    LET RECURSIVE Complete(_)
        Complete(i) ==
            IF i >= Len(bytecode) THEN TRUE
            ELSE LET operand_size == OperandSize(bytecode[i + 1])
                 IN  /\ operand_size # -1
                     /\ i + operand_size < Len(bytecode)
                     /\ Complete(i + 1 + operand_size)
    IN  bytecode # <<>> /\ Complete(0)

\* applyMutations(bytecode, mutation_rate, max_mutations): the bytecodes it can
\* leave. chance_dist decides at each instruction whether it is mutated and
\* whether its operand or its opcode is; opcode_dist draws one of the 30
\* mutable opcodes, of which NOP, PUSH and JMP are tried, and byte_dist a byte,
\* of which 0x00 and 0x80 are tried. Indices are the code's, from 0. A mutation
\* writes the opcode the loop has read already or the operand it steps over,
\* so the values i takes are those of the bytecode as it was passed.
ApplyMutations(bytecode, max_mutations) ==
    LET size == Len(bytecode)
        \* the test of lines 260-263: i++ and continue
        Skipped(i) ==
            \/ OperandSize(bytecode[i + 1]) = -1
            \/ i + OperandSize(bytecode[i + 1]) >= size
        \* i after the iteration at i
        After(i) ==
            IF Skipped(i) THEN i + 1
            ELSE i + 1 + OperandSize(bytecode[i + 1])
        \* the first value i takes at or after b once it is a
        RECURSIVE Reached(_, _)
        Reached(a, b) ==
            IF a >= b THEN a
            ELSE IF b = a + 1 THEN After(a)
            ELSE Reached(Reached(a, (a + b) \div 2), b)
        \* the values of i at which an instruction may be mutated
        sites == {i \in 0..(size - 2) : Reached(0, i) = i /\ ~Skipped(i)}
        Mutated(bc, i) ==
            LET op == bc[i + 1]
                operand_size == OperandSize(op)
                current_instruction_end == i + 1 + operand_size
                min_target == current_instruction_end % 256
                max_target == Min(255, size - 2)
                operand_mutated ==
                    IF operand_size = 0 THEN {}
                    ELSE IF op \in {12, 13, 14, 15}
                    THEN IF min_target <= max_target
                         THEN {[bc EXCEPT ![i + 2] = t] : t \in min_target..max_target}
                         ELSE {[bc EXCEPT ![i + 1] = 0]}
                    ELSE {[bc EXCEPT ![i + 2] = b] : b \in {0, 128}}
                opcode_mutated == {[bc EXCEPT ![i + 1] = o] : o \in {0, 1, 12}}
            IN  operand_mutated \cup opcode_mutated
        \* the loop from i on with that many mutations made
        RECURSIVE Walk(_, _, _)
        Walk(bc, i, mutations) ==
            IF ~(mutations < max_mutations) THEN {bc}
            ELSE {bc} \cup
                 UNION { UNION { Walk(m, After(s), mutations + 1) :
                                   m \in Mutated(bc, s) } :
                         s \in {t \in sites : t >= i} }
    IN  IF bytecode = <<>> \/ max_mutations = 0 THEN {bytecode}
        ELSE Walk(bytecode, 0, 0)

\* findUnitBoundaries: 0 and the position after each drawing instruction
\* that is not the last
FindUnitBoundaries(bytecode) ==
    LET RECURSIVE Scan(_, _)
        Scan(i, boundaries) ==
            IF i >= Len(bytecode) THEN boundaries
            ELSE LET op == bytecode[i + 1]
                     instruction_size == 1 + OperandSize(op)
                 IN  IF OperandSize(op) = -1 THEN Scan(i + 1, boundaries)
                     ELSE Scan(i + instruction_size,
                               IF /\ op \in {19, 29, 30, 31, 32, 33}
                                  /\ i + instruction_size < Len(bytecode)
                               THEN Append(boundaries, i + instruction_size)
                               ELSE boundaries)
    IN  Scan(0, <<0>>)

\* the child bytecodes reproduceWith can build from bc1 and bc2, both not
\* empty, before mutation
Crossover(bc1, bc2) ==
    LET boundaries1 == FindUnitBoundaries(bc1)
        boundaries2 == FindUnitBoundaries(bc2)
        Joined(p1, p2) == SubSeq(bc1, 1, p1) \o SubSeq(bc2, p2 + 1, Len(bc2))
    IN  IF Len(boundaries1) > 1 /\ Len(boundaries2) > 1
        THEN { Joined(boundaries1[k1], boundaries2[k2]) :
                 k1 \in 2..Len(boundaries1), k2 \in 2..Len(boundaries2) }
        ELSE { Joined(p, p) : p \in 0..Min(Len(bc1), Len(bc2)) }

\* an Organism as its constructor and replicate / reproduceWith leave it
NewOrganism(bytecode, generation, parent_id) ==
    [bytecode |-> bytecode, generation |-> generation, parent_id |-> parent_id]

\* the bytecodes organisms are constructed from: none, NOP HALT,
\* PUSH 0x80 HALT, DRAW_CIRCLE NOP HALT
OrgPrograms == {<<>>, <<0, 255>>, <<1, 128, 255>>, <<29, 0, 255>>}

\* max_mutations of the calls tried
MutationLimits == {0, 2}

\* ---- Organism(bytecode, vm, 0): the constructor takes next_id_
CreateOrganism ==
    /\ org_call.pc = "returned"
    /\ next_id <= MaxOrganisms
    /\ \E bytecode \in OrgPrograms :
         organisms' = (next_id :> NewOrganism(bytecode, 0, 0)) @@ organisms
    /\ org_call' = OrgCall("Organism", 0, 0, next_id, "returned")
    /\ next_id' = next_id + 1
    /\ UNCHANGED <<population, env_stats, cfg, upc, mutex, snapshot, elites, initial_size,
                   last_update, file, loads, load_result, top, elite_ids,
                   overwritten, pop_call, vm, engineVars>>

\* ---- replicate(vm, mutation_rate, max_mutations)
ReplicateUpTo(limits) ==
    /\ org_call.pc = "returned"
    /\ next_id <= MaxOrganisms
    /\ \E this \in DOMAIN organisms :
       \E max_mutations \in limits :
       \E new_bytecode \in ApplyMutations(organisms[this].bytecode, max_mutations) :
         /\ organisms' =
              (next_id :> NewOrganism(new_bytecode,
                                      organisms[this].generation + 1, this))
              @@ organisms
         /\ org_call' = OrgCall("replicate", this, 0, next_id, "returned")
    /\ next_id' = next_id + 1
    /\ UNCHANGED <<population, env_stats, cfg, upc, mutex, snapshot, elites, initial_size,
                   last_update, file, loads, load_result, top, elite_ids,
                   overwritten, pop_call, vm, engineVars>>

Replicate == ReplicateUpTo(MutationLimits)

\* ---- reproduceWith(other, ...): mutex_ is taken and other is tested; other
\* is an organism or null (0)
ReproduceWith ==
    /\ org_call.pc = "returned"
    /\ next_id <= MaxOrganisms
    /\ \E this \in DOMAIN organisms :
       \E other \in DOMAIN organisms \cup {0} :
         org_call' = OrgCall("reproduceWith", this, other, 0,
                             IF other = 0 THEN "returned" ELSE "getBytecode")
    /\ UNCHANGED <<organisms, envState, pop_call, vm, engineVars>>

\* ---- reproduceWith, from other->getBytecode() on. getBytecode locks the
\* mutex_ of other: when other is this organism the calling thread holds that
\* std::mutex already, which is undefined: the call blocks for ever, throws
\* std::system_error or goes on.
ReproduceWithCross ==
    /\ org_call.pc = "getBytecode"
    /\ LET this == org_call.this
           other == org_call.other
           bc1 == organisms[this].bytecode
           bc2 == organisms[other].bytecode
       IN  \E relock \in IF other = this THEN {"deadlocked", "threw", "returned"}
                         ELSE {"returned"} :
             IF relock # "returned" \/ bc1 = <<>> \/ bc2 = <<>>
             THEN /\ org_call' = [org_call EXCEPT !.pc = relock]
                  /\ UNCHANGED <<organisms, next_id>>
             ELSE \E max_mutations \in MutationLimits :
                  \E crossed \in Crossover(bc1, bc2) :
                  \E child_bytecode \in ApplyMutations(crossed, max_mutations) :
                    /\ organisms' =
                         (next_id :> NewOrganism(child_bytecode,
                                                 organisms[this].generation + 1,
                                                 this))
                         @@ organisms
                    /\ org_call' = [org_call EXCEPT !.child = next_id,
                                                    !.pc = "returned"]
                    /\ next_id' = next_id + 1
    /\ UNCHANGED <<population, env_stats, cfg, upc, mutex, snapshot, elites, initial_size,
                   last_update, file, loads, load_result, top, elite_ids,
                   overwritten, pop_call, vm, engineVars>>

OrgNext ==
    \/ CreateOrganism
    \/ Replicate
    \/ ReproduceWith
    \/ ReproduceWithCross

\* the orders in which the ids of S can be listed
RECURSIVE Orders(_)
Orders(S) ==
    IF S = {} THEN {<<>>}
    ELSE UNION {{<<x>> \o sq : sq \in Orders(S \ {x})} : x \in S}

\* select_for_reproduction_unlocked_ with the sort left out
Unsorted(pop) == Orders(DOMAIN pop)

\* what std::sort can leave in sorted_population: fitness descending, organisms
\* of equal fitness in any order
SortedByFitness(pop) ==
    { sq \in Orders(DOMAIN pop) :
        \A i \in 1..(Len(sq) - 1) : pop[sq[i]] >= pop[sq[i + 1]] }

\* select_for_reproduction_unlocked_(count): the first min(count, size) of
\* the sorted organisms
SelectForReproduction(pop, count) ==
    { SubSeq(sq, 1, Min(count, Len(sq))) : sq \in SortedByFitness(pop) }

\* ---- getTopFittest(count) / selectForReproduction(count), under the lock
GetTopFittest ==
    /\ upc = "idle"
    /\ \E count \in 0..(MaxTopPop + 1) :
         \E result \in SelectForReproduction(population, count) :
           top' = TopFittest(count, result)
    /\ UNCHANGED <<population, next_id, env_stats, cfg, upc, mutex, snapshot, elites,
                   initial_size, last_update, file, loads, load_result,
                   elite_ids, overwritten, unitVars, engineVars>>

StoreNext ==
    \/ EnvSaveState
    \/ CheckpointDamaged
    \/ EnvLoadState
    \/ ApplyEnvironmentalPressures

\* ---------------------------------------------------------- specifications
Init == EngineInit /\ EnvIdle

Spec == Init /\ [][Next]_vars

\* the scheduler runs the worker thread whenever it can take a step
FairSpec == Spec /\ WF_vars(Worker)

\* the engine with a callback that may call stop() on any event, no
\* checkpoint and no generation limit
LockInit ==
    /\ Init
    /\ callback = "stopper"
    /\ max_generations = 0
    /\ ~enable_save_state
    /\ checkpoint = NoCheckpoint

LockSpec == LockInit /\ [][Next \/ CallbackStops \/ CallbackJoin]_vars

\* the process starts with the configuration the checkpoint was written with
EnvInit ==
    /\ EngineIdle
    /\ EnvStart
    /\ file \in {NoFile} \cup EarlierCheckpoints
    /\ file.exists => cfg = file.config

EnvSpec == EnvInit /\ [][EnvNext]_vars

\* update() with its failures, from no checkpoint
FailInit ==
    /\ EngineIdle
    /\ EnvStart
    /\ file = NoFile

FailSpec ==
    /\ FailInit
    /\ [][ \/ UpdateEmpty \/ UpdateSnapshot \/ UpdateEvaluate \/ UpdateElitism
           \/ UpdateScarcity \/ UpdateCatastrophe \/ UpdatePredation
           \/ UpdateAging \/ UpdateCompetition \/ UpdateReproduce
           \/ UpdateThrows ]_vars

\* update() on the worker thread and the calls of client threads, in
\* environments that keep one elite, from no checkpoint
ClientsInit ==
    /\ FailInit
    /\ cfg.elite_count = 1
    /\ cfg.resource_abundance = 10
    /\ cfg.immigration_chance = 0

ClientsSpec ==
    /\ ClientsInit
    /\ [][ \/ UpdateEmpty \/ UpdateSnapshot \/ UpdateEvaluate \/ UpdateElitism
           \/ UpdateScarcity \/ UpdateCatastrophe \/ UpdatePredation
           \/ UpdateAging \/ UpdateCompetition \/ UpdateReproduce
           \/ EnvGetPopulation \/ AddOrganism \/ RemoveOrganism ]_vars

\* an initialized environment, no elite and no immigrant configured, no
\* checkpoint on disk
StoreInit ==
    /\ EngineIdle
    /\ EnvStart
    /\ cfg.elite_count = 0
    /\ cfg.immigration_chance = 0
    /\ file = NoFile

\* saving, loading and the pressures applied from outside update()
StoreSpec == StoreInit /\ [][StoreNext]_vars

\* configurations with every culling pressure disabled and resources for
\* max_population organisms
GrowConfigs ==
    { [c EXCEPT !.max_population = mx] :
        c \in {d \in EnvConfigs :
                 /\ d.elite_count = 0 /\ d.resource_abundance = 10
                 /\ ~d.enable_aging /\ ~d.enable_competition
                 /\ ~d.enable_predation /\ ~d.enable_random_catastrophes},
        mx \in {20, 100} }

\* update() on n organisms that evaluate to fitness 0, under such a
\* configuration, when it reaches performReproduction: no organism was removed
GrowInit ==
    /\ EngineIdle
    /\ cfg \in GrowConfigs
    /\ \E n \in 0..MaxGrowPop :
         /\ n <= cfg.max_population
         /\ population = [i \in 1..n |-> 0]
         /\ snapshot = 1..n
         /\ next_id = n + 1
         /\ env_stats = EnvironmentStats(0, n, 0, 0, n, 0)
         /\ initial_size = n
    /\ upc = "reproduce"
    /\ mutex = "update"
    /\ elites = <<>>
    /\ last_update = "running"
    /\ file = NoFile
    /\ loads = 0
    /\ load_result = "none"
    /\ top = TopFittest(0, <<>>)
    /\ elite_ids = {}
    /\ overwritten = {}
    /\ UnitIdle

\* update() on n organisms that evaluate to fitness 0 when it reaches the
\* pressures: predation enabled, no catastrophes, no elites, room for 2
\* organisms or for 100
PredInit ==
    /\ EngineIdle
    /\ cfg \in { [c EXCEPT !.max_population = site[1],
                           !.resource_abundance = site[2],
                           !.enable_random_catastrophes = FALSE] :
                   c \in {d \in EnvConfigs :
                            /\ d.elite_count = 0 /\ d.immigration_chance = 0
                            /\ d.enable_predation},
                   site \in {<<20, 1>>, <<100, 10>>} }
    /\ \E n \in 0..MaxPredPop :
         /\ population = [i \in 1..n |-> 0]
         /\ snapshot = 1..n
         /\ next_id = n + 1
         /\ env_stats = EnvironmentStats(0, n, 0, 0, n, 0)
         /\ initial_size = n
    /\ upc = "scarcity"
    /\ mutex = "update"
    /\ elites = <<>>
    /\ last_update = "running"
    /\ file = NoFile
    /\ loads = 0
    /\ load_result = "none"
    /\ top = TopFittest(0, <<>>)
    /\ elite_ids = {}
    /\ overwritten = {}
    /\ UnitIdle

\* the pressures of such an update()
PredSpec ==
    PredInit /\ [][UpdateScarcity \/ UpdateCatastrophe \/ UpdatePredation]_vars

\* the reproduction and counting that ends such an update()
GrowSpec == GrowInit /\ [][UpdateReproduce]_vars

\* a VM of each configuration with each program
VmInit ==
    /\ EngineIdle
    /\ EnvEmpty
    /\ cfg \in {CHOOSE c \in EnvConfigs : TRUE}
    /\ OrgIdle
    /\ pop_call = PopCall("none", 0, FALSE)
    /\ vm \in { VmConstructed(c, bytecode) : c \in VmConfigs, bytecode \in VmPrograms }

\* VMs about to run programs of PUSH, DRAW_CIRCLE and HALT from a seeded state
VmSeededInit ==
    /\ EngineIdle
    /\ EnvEmpty
    /\ cfg \in {CHOOSE c \in EnvConfigs : TRUE}
    /\ OrgIdle
    /\ pop_call = PopCall("none", 0, FALSE)
    /\ vm \in { VmConstructed(c, bytecode) :
                  c \in VmConfigs,
                  bytecode \in UNION { [1..n -> {1, 29, 255}] : n \in 0..MaxProgLen } }

\* one execute(bytecode, initial_state) per VM
VmSeededSpec == VmSeededInit /\ [][VmExecuteSeeded \/ VmStep]_vars

OrgInit ==
    /\ EngineIdle
    /\ EnvEmpty
    /\ UnitIdle
    /\ cfg \in {CHOOSE c \in EnvConfigs : TRUE}

\* organisms constructed, replicated and mated by hand
OrgSpec == OrgInit /\ [][OrgNext]_vars

\* the bytecodes of the jump mutations tried, as <<i, size>>: PUSH 0 up to the
\* JMP 0 at byte index i, NOPs after it and the final HALT; the last three
\* are longer than a one-byte target reaches
JumpPrograms ==
    LET Program(i, size) ==
            [k \in 1..size |-> IF k = i + 1 THEN 12
                               ELSE IF k = size THEN 255
                               ELSE IF k <= i /\ k % 2 = 1 THEN 1 ELSE 0]
    IN  { Program(site[1], site[2]) :
            site \in {<<0, 4>>, <<2, 5>>, <<100, 258>>, <<254, 258>>,
                      <<256, 260>>} }

\* one organism with a jump in its bytecode; the organisms constructed before
\* it are gone
JumpInit ==
    /\ EngineIdle
    /\ file = NoFile
    /\ population = <<>>
    /\ env_stats = EnvironmentStats(0, 0, 0, 0, 0, 0)
    /\ upc = "idle"
    /\ mutex = "free"
    /\ snapshot = {}
    /\ elites = <<>>
    /\ initial_size = 0
    /\ last_update = "none"
    /\ loads = 0
    /\ load_result = "none"
    /\ top = TopFittest(0, <<>>)
    /\ elite_ids = {}
    /\ overwritten = {}
    /\ pop_call = PopCall("none", 0, FALSE)
    /\ vm = VmConstructed(CHOOSE c \in VmConfigs : TRUE, <<>>)
    /\ org_call = OrgCall("none", 0, 0, 0, "returned")
    /\ cfg \in {CHOOSE c \in EnvConfigs : TRUE}
    /\ \E bytecode \in JumpPrograms :
         organisms = ((MaxOrganisms - 1) :> NewOrganism(bytecode, 0, 0))
    /\ next_id = MaxOrganisms

\* replicate(vm, mutation_rate, 1) of an organism with a jump
JumpSpec == JumpInit /\ [][ReplicateUpTo({1})]_vars

\* one execute() per VM
VmSpec == VmInit /\ [][VmNext]_vars

\* the thread that called execute() keeps running
VmFairSpec == VmSpec /\ WF_vars(VmNext)

\* setConfig on an empty environment
PopConfigs ==
    { [c EXCEPT !.max_population = mx, !.resource_abundance = ra] :
        c \in {d \in EnvConfigs : d.elite_count = 0 /\ d.immigration_chance = 0},
        mx \in {2, 4}, ra \in {1, 100} }   \* resource_abundance 0.1 and 10.0

PopInit ==
    /\ EngineIdle
    /\ EnvEmpty
    /\ UnitIdle
    /\ cfg \in PopConfigs

\* organisms added and removed by hand, and the pressures applied
PopSpec == PopInit /\ [][PopNext]_vars

\* populations of organisms that were given fitness scores
TopFitnessScores == {2, 5, 7, 9}

\* n organisms constructed, given a fitness score and added (addOrganism
\* accepts them up to max_population)
TopInit ==
    /\ EngineIdle
    /\ \E n \in 0..MaxTopPop :
         /\ population \in [1..n -> TopFitnessScores]
         /\ next_id = n + 1
         /\ env_stats = EnvironmentStats(0, n, 0, 0, n, 0)
    /\ cfg = [(CHOOSE c \in EnvConfigs : TRUE) EXCEPT !.max_population = MaxTopPop]
    /\ upc = "idle"
    /\ mutex = "free"
    /\ snapshot = {}
    /\ elites = <<>>
    /\ initial_size = 0
    /\ last_update = "none"
    /\ file = NoFile
    /\ loads = 0
    /\ load_result = "none"
    /\ top = TopFittest(0, <<>>)
    /\ UnitIdle
    /\ elite_ids = {}
    /\ overwritten = {}

\* getTopFittest on populations of every fitness order
TopSpec == TopInit /\ [][GetTopFittest]_vars

\* the history over more events than it holds
HistorySpec == (EngineIdle /\ EnvIdle) /\ [][EmitGenerationCompleted]_vars

\* ===================================================================== checks

HasEvent(h, type) == \E i \in 1..Len(h) : h[i].type = type

\* the events of type `type` recorded in h
CountEvents(h, type) == Cardinality({i \in 1..Len(h) : h[i].type = type})

\* a step in which the client thread makes the call `name`
Calls(name) == ops' = ops + 1 /\ call' = name

\* the flags, the worker and the event history are what they were
LifecycleUntouched ==
    /\ running' = running
    /\ paused' = paused
    /\ should_stop' = should_stop
    /\ wpc' = wpc
    /\ history' = history

\* C1: a lifecycle call that is a no-op transition (start while running, stop
\* while not running, pause while not running or already paused, resume while
\* not running or not paused) returns false and leaves the running/paused
\* flags, the worker and the event history unchanged.
C1_NoopCallsChangeNothing ==
    [][/\ (Calls("start") /\ running) =>
            (ret' = Ret("start", FALSE, FALSE) /\ LifecycleUntouched)
       /\ (Calls("stop") /\ ~running) =>
            (ret' = Ret("stop", FALSE, FALSE) /\ cpc' = "idle" /\ LifecycleUntouched)
       /\ (Calls("pause") /\ (~running \/ paused)) =>
            (ret' = Ret("pause", FALSE, FALSE) /\ LifecycleUntouched)
       /\ (Calls("resume") /\ (~running \/ ~paused)) =>
            (ret' = Ret("resume", FALSE, FALSE) /\ LifecycleUntouched)
      ]_vars

\* resume() was called on a running engine that was not paused, and refused
C1_Witness ==
    /\ call = "resume"
    /\ ret = Ret("resume", FALSE, FALSE)
    /\ running
    /\ ~paused
    /\ HasEvent(history, "ENGINE_STARTED")
    /\ ~HasEvent(history, "ENGINE_RESUMED")

\* C2 (as claimed): after pause() and a resume() that returned true, the worker
\* eventually completes a generation beyond the count at pause time, unless a
\* stop is requested, the limit is reached, an update fails, the engine is
\* called again or the explored generations run out.
C2_ResumeLeadsToGeneration ==
    [](  (call = "resume" /\ ret = Ret("resume", TRUE, FALSE))
      => <>(\/ total_generations > pause_gen
            \/ should_stop
            \/ update_failed
            \/ crashed
            \/ env_generation = MaxGen
            \/ call # "resume"))

\* C3 (as claimed): while the engine stays paused, neither total_generations
\* nor the environment's generation (what saveState captures) changes.
C3_PausedFreezesGenerations ==
    [][(paused /\ paused') =>
         (total_generations' = total_generations /\ env_generation' = env_generation)
      ]_vars

\* C4 (as claimed): after Environment::update returned false (and with no stop
\* requested) the worker stays alive: it does not leave evolutionLoop.
C4_WorkerSurvivesUpdateFailure ==
    (update_failed /\ ~should_stop) => wpc \notin {"done", "none"}

\* the history gained no GENERATION_COMPLETED event in this step
NoGenerationCompleted ==
    CountEvents(history', "GENERATION_COMPLETED")
        = CountEvents(history, "GENERATION_COMPLETED")

\* C5: stop() on the client thread of a running engine returns true with
\* running = false, paused = false and the worker joined; from then until the
\* next start() no generation is run (engine and environment counters stay,
\* but for a loadState) and no GENERATION_COMPLETED event is emitted.
C5_ClientStopEndsGenerations ==
    /\ [](stopped => (~running /\ ~paused /\ wpc = "none" /\ ~crashed))
    /\ [][(cpc = "stop_join" /\ cpc' = "idle") =>
            (ret' = Ret("stop", TRUE, FALSE) /\ stopped')]_vars
    /\ [][(stopped /\ stopped' /\ ~Calls("loadState")) =>
            /\ total_generations' = total_generations
            /\ env_generation' = env_generation
            /\ NoGenerationCompleted]_vars

\* stop() returned true on an engine that was paused with a generation done
C5_Witness ==
    /\ stopped
    /\ ret = Ret("stop", TRUE, FALSE)
    /\ total_generations >= 1
    /\ HasEvent(history, "ENGINE_PAUSED")
    /\ ~HasEvent(history, "ENGINE_RESUMED")

\* a step in which the event callback, on the worker thread, calls stop()
WorkerCallsStop == wpc = "commit" /\ ~should_stop /\ stop_on_worker' /\ running

\* C6 (as claimed): stop() invoked on the worker thread only sets the stop
\* flag and returns without blocking (no join, nothing else changed).
C6_WorkerStopOnlySetsFlag ==
    [][WorkerCallsStop =>
         /\ should_stop'
         /\ wpc' = "post"
         /\ running' = running
         /\ paused' = paused
         /\ CountEvents(history', "ENGINE_STOPPED") = CountEvents(history, "ENGINE_STOPPED")
      ]_vars

\* C6 (amended): stop() invoked on the worker thread never joins the worker:
\* it sets the stop flag, skips the join, clears running and paused, records
\* ENGINE_STOPPED and returns, the worker going on to leave its loop.
C6_WorkerStopNeverJoins ==
    /\ [](wpc # "self_join")
    /\ [][WorkerCallsStop =>
            /\ should_stop'
            /\ wpc' = "post"
            /\ ~running'
            /\ ~paused'
            /\ CountEvents(history', "ENGINE_STOPPED")
                 = CountEvents(history, "ENGINE_STOPPED") + 1
         ]_vars

\* the callback has called stop() and the worker has left its loop unjoined
C6_Witness ==
    /\ stop_on_worker
    /\ wpc = "done"
    /\ ~running
    /\ should_stop
    /\ HasEvent(history, "ENGINE_STOPPED")

\* C7 (as claimed): with max_generations > 0, total_generations never exceeds
\* max_generations, also after a start from a checkpoint or a restart.
C7_NeverBeyondMaxGenerations ==
    max_generations > 0 => total_generations <= max_generations

\* C8 (as claimed): waitForCompletion returns false only on timeout.
C8_WaitFalseOnlyOnTimeout ==
    (call = "waitForCompletion" /\ cpc = "idle" /\ ret.op = "waitForCompletion"
        /\ ~ret.val)
    => ret.timed_out

\* the lifecycle state the two flags stand for
Lifecycle ==
    IF running THEN (IF paused THEN "Paused" ELSE "Running")
    ELSE (IF paused THEN "Invalid" ELSE "Stopped")

C10_PopulationWithinBounds ==
    (upc = "idle" /\ last_update = "completed") =>
        /\ env_stats.population_size <= cfg.max_population
        /\ env_stats.population_size >= 1

\* C11 (as claimed): when update() has returned true on a non-empty
\* population, every elite it took out at the start of the state-modifying
\* phase is still in the population: its id is there and its entry was not
\* given to another organism.
C11_ElitesSurvive ==
    (upc = "idle" /\ last_update = "completed") =>
        /\ elite_ids \subseteq DOMAIN population
        /\ elite_ids \cap overwritten = {}

\* C12 (as claimed): inserting an offspring or immigrant never replaces an
\* existing entry of the population, also after a checkpoint was loaded.
C12_InsertNeverReplaces == overwritten = {}

\* a step that is a call of Environment::loadState returning `result`
LoadReturns(result) == loads' = loads + 1 /\ load_result' = result

\* C13 (as claimed): loading what saveState wrote restores the saved stats
\* (generation, population_size, total_organisms_created,
\* total_organisms_died) and the saved organisms (ids and fitness scores).
C13_SaveLoadRoundTrip ==
    [][LoadReturns("ok") =>
         /\ env_stats'.generation = file.stats.generation
         /\ env_stats'.population_size = file.stats.population_size
         /\ env_stats'.total_organisms_created = file.stats.total_organisms_created
         /\ env_stats'.total_organisms_died = file.stats.total_organisms_died
         /\ population' = file.organisms
      ]_vars

\* C14 (as claimed): a loadState that returns false leaves the population,
\* the stats and the configuration as they were.
C14_FailedLoadChangesNothing ==
    [][LoadReturns("failed") =>
         /\ population' = population
         /\ env_stats' = env_stats
         /\ cfg' = cfg
      ]_vars

\* C15: loadState on a running engine returns false and changes neither the
\* environment nor the engine's stats (nor the history); loadState on a
\* stopped engine that succeeds sets total_generations to the loaded
\* environment generation and emits STATE_LOADED with it.
C15_LoadStateNeedsStoppedEngine ==
    [][/\ (Calls("loadState") /\ running) =>
            /\ ret' = Ret("loadState", FALSE, FALSE)
            /\ env_generation' = env_generation
            /\ total_generations' = total_generations
            /\ history' = history
       /\ (Calls("loadState") /\ ~running /\ ret'.val) =>
            /\ env_generation' = checkpoint
            /\ total_generations' = env_generation'
            /\ history' = PushHistory(history, Event("STATE_LOADED", total_generations'))
      ]_vars

\* a run was stopped at another generation than the checkpoint's, and
\* loadState then succeeded
C15_Witness ==
    /\ call = "loadState"
    /\ ret = Ret("loadState", TRUE, FALSE)
    /\ ~running
    /\ HasEvent(history, "ENGINE_STOPPED")
    /\ HasEvent(history, "GENERATION_COMPLETED")
    /\ total_generations = checkpoint
    /\ history[Len(history)] = Event("STATE_LOADED", checkpoint)

\* position i of h is the STATE_LOADED of an automatic resume
ResumedAt(h, i) ==
    /\ i < Len(h)
    /\ h[i].type = "STATE_LOADED"
    /\ h[i + 1].type = "ENGINE_STARTED"

\* position j of h is the first GENERATION_COMPLETED of the run started at i + 1
FirstCompleted(h, i, j) ==
    /\ j > i + 1
    /\ h[j].type = "GENERATION_COMPLETED"
    /\ \A k \in (i + 2)..(j - 1) :
         h[k].type \notin {"GENERATION_COMPLETED", "ENGINE_STARTED"}

C18_EventsCarryGeneration ==
    [][\A i \in (Len(history) + 1)..Len(history') :
         history'[i].generation = total_generations'
      ]_vars

\* C19 (as claimed): what getStats returns belongs to one committed
\* generation: its generation count is the generation its population and
\* fitness figures were computed in.
C19_StatsSnapshotConsistent ==
    (call = "getStats" /\ running) =>
        stats_snapshot.total_generations = stats_snapshot.population_generation

\* C17 (as claimed): the history never holds more than 1000 events and holds
\* the events in the order they were emitted: run_generation_ emits
\* GENERATION_COMPLETED before anything the callback emits, so it is the first
\* event a committing step adds to the history.
C17_HistoryInEmissionOrder ==
    /\ [](Len(history) <= HistoryCap)
    /\ [][ (wpc = "commit" /\ wpc' = "post" /\ Len(history) < HistoryCap) =>
             history'[Len(history) + 1] =
                 Event("GENERATION_COMPLETED", total_generations')
      ]_vars

\* what does hold of the history when no callback emits: never more than 1000
\* events, the most recent ones in the order they were appended, the oldest
\* being the ones evicted (after n events: events n - Len + 1 .. n).
HistoryBoundedFifo ==
    /\ Len(history) <= HistoryCap
    /\ Len(history) = Min(total_generations, HistoryCap)
    /\ \A i \in 1..Len(history) :
         history[i] = Event("GENERATION_COMPLETED",
                            total_generations - Len(history) + i)

\* more events were emitted than the history holds: the first ones are gone
HistoryFull ==
    /\ total_generations > HistoryCap + 1
    /\ Len(history) = HistoryCap
    /\ history[1].generation = total_generations - HistoryCap + 1
    /\ history[HistoryCap].generation = total_generations

\* C20: getTopFittest(count) returns exactly min(count, population size)
\* organisms of the population, each once, ordered by fitness descending, no
\* organism left out being fitter than one returned; the population is not
\* changed by the call.
C20_TopFittest ==
    /\ [](LET r == top.result
          IN  /\ Len(r) = Min(top.count, Size(population))
              /\ \A i \in 1..Len(r) : r[i] \in DOMAIN population
              /\ \A i, j \in 1..Len(r) : i # j => r[i] # r[j]
              /\ \A i, j \in 1..Len(r) :
                   i < j => population[r[i]] >= population[r[j]]
              /\ \A o \in DOMAIN population \ {r[i] : i \in 1..Len(r)} :
                   \A i \in 1..Len(r) : population[o] <= population[r[i]])
    /\ [][population' = population /\ env_stats' = env_stats]_vars

\* three organisms of fitness 0.5, 0.9, 0.2 and the top two: 0.9, then 0.5
C20_Witness ==
    /\ population = <<5, 9, 2>>
    /\ top = TopFittest(2, <<2, 1>>)

\* the fraction of the population selection removes in C21, in tenths
SelectionPressure == 5

\* C21 (as claimed): with predation and catastrophes disabled and
\* resource_abundance = 10, applyEnvironmentalPressures removes the
\* lowest-fitness fraction selection_pressure of the population and keeps the
\* rest.
C21_SelectionRemovesLowest ==
    [][ ( /\ pop_call'.op = "applyEnvironmentalPressures"
          /\ pop_call.op # "applyEnvironmentalPressures"
          /\ ~cfg.enable_predation /\ ~cfg.enable_random_catastrophes
          /\ cfg.resource_abundance = 100 ) =>
        LET removed == DOMAIN population \ DOMAIN population'
        IN  /\ DOMAIN population' \subseteq DOMAIN population
            /\ Cardinality(removed) = (Size(population) * SelectionPressure) \div 10
            /\ \A r \in removed : \A k \in DOMAIN population' :
                 population[r] <= population[k]
      ]_vars

\* C23 (as claimed): addOrganism returns false and changes nothing when the
\* organism is null or the population is full, and otherwise returns true
\* with the organism in the population and the size grown by one;
\* removeOrganism returns true and removes the entry of a present id, and
\* returns false and changes nothing for an absent one.
C23_AddRemoveOrganism ==
    [][ /\ pop_call'.op = "addOrganism" =>
             IF pop_call'.id = 0 \/ Size(population) >= cfg.max_population
             THEN /\ ~pop_call'.val
                  /\ population' = population
                  /\ env_stats' = env_stats
             ELSE /\ pop_call'.val
                  /\ pop_call'.id \in DOMAIN population'
                  /\ Size(population') = Size(population) + 1
        /\ pop_call'.op = "removeOrganism" =>
             IF pop_call'.id \in DOMAIN population
             THEN /\ pop_call'.val
                  /\ population' = Without(population, {pop_call'.id})
             ELSE /\ ~pop_call'.val
                  /\ population' = population
                  /\ env_stats' = env_stats
      ]_vars

\* C22 (as claimed): with the culling pressures disabled, update() on n >= 2
\* organisms counts one generation and leaves
\* min(max_population, max(min_population, ceil(1.1 n))) organisms, with
\* births_this_gen the number of organisms added.
C22_PopulationGrowsToTarget ==
    [][ (upc = "reproduce" /\ upc' = "idle" /\ Size(population) >= 2) =>
        LET n == Size(population)
        IN  /\ env_stats'.generation = env_stats.generation + 1
            /\ Size(population') =
                 Min(cfg.max_population,
                     Max(cfg.min_population, (11 * n + 9) \div 10))
            /\ env_stats'.births_this_gen = Size(population') - n
      ]_vars

\* C24 (as claimed): every organism's fitness score (in tenths) stays within
\* [0, 1] in every reachable state, after evaluation and after the
\* cooperation bonus.
C24_FitnessWithinUnitInterval ==
    /\ \A i \in DOMAIN population : population[i] \in 0..10
    /\ \A i \in DOMAIN elites : elites[i] \in 0..10

\* C25: execute() returns, and from then on (and at every point before)
\* last_stats.instructions_executed <= max_instructions.
C25_ExecutionBounded ==
    /\ [](vm.instructions_executed <= vm.max_instructions)
    /\ <>(vm.phase = "returned")

\* a program that jumps back for ever is stopped by the budget
C25_Witness ==
    /\ vm.phase = "returned"
    /\ vm.bytecode = <<12, 0>>
    /\ vm.max_instructions = 8
    /\ vm.instructions_executed = 8

\* C26: a fault ends the run at its instruction with halted_normally = false
\* and an error message (stack underflow and overflow, division and modulo by
\* zero, an unknown opcode, a memory access out of bounds); a run ended by
\* HALT, by the program counter passing the end of memory or by the budget
\* records no error message, and halted_normally only for HALT.
C26_FaultsAreReported ==
    /\ [][ LET \* the instruction the loop is about to execute and its stack
               VmAt(opcode, stack) ==
                   /\ vm.phase = "running"
                   /\ vm.pc < Len(vm.memory)
                   /\ ~BudgetSpent(vm)
                   /\ vm.memory[vm.pc + 1] = opcode
                   /\ vm.stack = stack
               \* the run ends at this instruction with the message
               VmFaults(message) ==
                   /\ vm'.phase = "returned"
                   /\ vm'.pc = vm.pc
                   /\ vm'.instructions_executed = vm.instructions_executed
                   /\ ~vm'.halted_normally
                   /\ vm'.error_message = message
           IN
           /\ (\E op \in {6, 7, 26} : VmAt(op, <<>>)) => VmFaults("Stack underflow")
           /\ (\E x \in VmBytes : VmAt(6, <<x>>)) => VmFaults("Stack underflow")
           /\ (\E x \in VmBytes : VmAt(6, <<x, 0>>)) => VmFaults("Division by zero")
           /\ (\E x \in VmBytes : VmAt(7, <<x, 0>>)) => VmFaults("Modulo by zero")
           /\ (\E op \in {1, 26} : Len(vm.stack) = vm.stack_size
                                  /\ VmAt(op, vm.stack)) => VmFaults("Stack overflow")
           /\ VmAt(34, vm.stack) =>
                (vm'.error_message # "" /\ VmFaults(vm'.error_message))
           /\ ( /\ VmAt(17, vm.stack)
                /\ vm.pc + 1 < Len(vm.memory)
                /\ vm.memory[vm.pc + 2] >= Len(vm.memory) ) =>
                (vm'.error_message # "" /\ VmFaults(vm'.error_message))
           /\ VmAt(255, vm.stack) =>
                (vm'.phase = "returned" /\ vm'.halted_normally /\ vm'.error_message = "")
           /\ (vm.phase = "running" /\ (vm.pc >= Len(vm.memory) \/ BudgetSpent(vm))) =>
                (vm'.phase = "returned" /\ ~vm'.halted_normally /\ vm'.error_message = "")
         ]_vars
    /\ [](vm.phase = "returned" =>
            (vm.error_message # "" <=>
               /\ vm.running /\ vm.pc < Len(vm.memory) /\ ~BudgetSpent(vm)))

\* C27: mutation never overwrites the final HALT byte: when the bytecode a
\* replication copies ends in HALT (0xFF), so does the bytecode of the child,
\* which applyMutations has been through.
C27_MutationKeepsFinalHalt ==
    [][ (org_call'.op = "replicate" /\ next_id' = next_id + 1) =>
          LET bytecode == organisms[org_call'.this].bytecode
              mutated == organisms'[next_id].bytecode
          IN  (bytecode # <<>> /\ bytecode[Len(bytecode)] = 255) =>
                mutated[Len(mutated)] = 255
      ]_vars

\* C28: mutation preserves validity: when validateBytecode holds of the
\* bytecode a replication copies, it holds of the child's bytecode, which
\* applyMutations has been through.
C28_MutationKeepsValid ==
    [][ (org_call'.op = "replicate" /\ next_id' = next_id + 1) =>
          ( ValidateBytecode(organisms[org_call'.this].bytecode) =>
              ValidateBytecode(organisms'[next_id].bytecode) )
      ]_vars

\* C29: reproduceWith returns nothing when the other parent is null or either
\* parent has empty bytecode; otherwise it returns a child with non-empty
\* bytecode, an id no organism has, parent_id the id of the first parent and
\* generation that of the first parent + 1; the organisms there were are
\* left as they were.
C29_ReproduceWith ==
    [][ /\ ( /\ org_call.pc = "returned"
             /\ org_call'.op = "reproduceWith"
             /\ org_call' # org_call
             /\ org_call'.other = 0 ) =>
             ( /\ org_call'.pc = "returned"
               /\ org_call'.child = 0
               /\ organisms' = organisms )
        /\ org_call.pc = "getBytecode" =>
             LET this == org_call.this
                 child == org_call'.child
             IN  /\ org_call'.pc = "returned"
                 /\ \A id \in DOMAIN organisms : organisms'[id] = organisms[id]
                 /\ IF \/ organisms[this].bytecode = <<>>
                       \/ organisms[org_call.other].bytecode = <<>>
                    THEN child = 0 /\ organisms' = organisms
                    ELSE /\ child \in DOMAIN organisms' \ DOMAIN organisms
                         /\ organisms'[child].bytecode # <<>>
                         /\ organisms'[child].parent_id = this
                         /\ organisms'[child].generation =
                              organisms[this].generation + 1
      ]_vars

\* C30: update() does not hold the environment lock while it evaluates
\* fitness, so that a getStats() of another thread can take it; it holds the
\* lock exactly in the state-modifying phase.
C30_EvaluationWithoutLock ==
    /\ upc = "evaluate" => (mutex = "free" /\ ENABLED EnvGetStats)
    /\ mutex = "update" <=>
         upc \in {"scarcity", "catastrophe", "predation", "aging",
                  "competition", "reproduce"}

\* a getStats() has completed during the evaluation of the second generation
C30_Witness ==
    /\ upc = "evaluate"
    /\ env_stats.generation = 1
    /\ pop_call = PopCall("getStats", 1, TRUE)

\* C31: a call of a client thread reads or changes the population and the
\* stats only while update() does not hold the environment lock, and never
\* while the elites are out of the population.
C31_ClientsExcludedFromUpdate ==
    [][ pop_call' # pop_call => (mutex = "free" /\ DOMAIN elites = {}) ]_vars

\* C32: update() is all-or-nothing: when it returns false for a caught
\* exception the generation is not counted and the population holds the
\* organisms it held when the update began, the elites included.
C32_FailedUpdateChangesNothing ==
    [][ (upc # "idle" /\ last_update' = "failed") =>
          /\ upc' = "idle"
          /\ env_stats'.generation = env_stats.generation
          /\ DOMAIN population' = snapshot
      ]_vars

\* C33: the step that completes generation g writes the checkpoint exactly
\* when enable_save_state is set and g is a multiple of the save interval;
\* the save records the environment's generation and its STATE_SAVED event
\* carries g; a later start() resumes from the recorded generation.
C33_PeriodicCheckpoint ==
    [][ /\ (wpc = "commit" /\ wpc' = "post"
               /\ total_generations' = total_generations + 1) =>
            LET g == total_generations'
                due == enable_save_state /\ g % save_interval = 0
            IN  /\ due => /\ checkpoint' = env_generation
                          /\ history'[Len(history')] = Event("STATE_SAVED", g)
                /\ ~due => checkpoint' = checkpoint
        /\ (Calls("start") /\ ret' = Ret("start", TRUE, FALSE)
               /\ checkpoint # NoCheckpoint) =>
            /\ total_generations' = checkpoint
            /\ env_generation' = checkpoint
      ]_vars

\* a run that saved after generation 2 was stopped and started again from it
C33_Witness ==
    /\ checkpoint = 2
    /\ \E i, j \in 1..Len(history) :
        /\ i < j
        /\ history[i] = Event("STATE_SAVED", 2)
        /\ history[j] = Event("STATE_LOADED", 2)
    /\ total_generations = 2
    /\ wpc = "top"

\* C34: when replicate() replaces the operand of the jump at byte index i of
\* a bytecode of length n, the new target t has i + 2 <= t <= n - 2: it is
\* after the instruction, before the final HALT, never backward.
C34_ForwardJumpRule ==
    [][ org_call'.op = "replicate" /\ next_id' = next_id + 1 =>
          LET old == organisms[org_call'.this].bytecode
              new == organisms'[org_call'.child].bytecode
              n == Len(old)
          IN  \A i \in 0..(n - 3) :
                ( /\ old[i + 1] = 12
                  /\ new[i + 1] = 12
                  /\ new[i + 2] # old[i + 2] ) =>
                    ( i + 2 <= new[i + 2] /\ new[i + 2] <= n - 2 )
      ]_vars

\* C35: predation on k >= 2 organisms removes at least one and at most
\* min(max(1, floor(0.05 k)), k - 1) of them, so one survives at least, and
\* removes none of fewer than 2; resource scarcity leaves at most
\* floor(max_population x resource_abundance) organisms.
C35_PredationSparesOne ==
    [][ /\ (upc = "predation" /\ upc' = "aging") =>
            LET k == Size(population)
                removed == DOMAIN population \ DOMAIN population'
                most == Min(Max(1, (5 * k) \div 100), k - 1)
            IN  /\ population' = Restrict(population, DOMAIN population')
                /\ DOMAIN population' \subseteq DOMAIN population
                /\ (cfg.enable_predation /\ k >= 2) =>
                      /\ 1 <= Cardinality(removed)
                      /\ Cardinality(removed) <= most
                      /\ Size(population') >= 1
                /\ k < 2 => removed = {}
        /\ (upc = "scarcity" /\ upc' = "catastrophe") =>
            /\ 10 * Size(population') <= cfg.max_population * cfg.resource_abundance
            /\ DOMAIN population' \subseteq DOMAIN population
      ]_vars

\* predation took two of 41 organisms
C35_Witness ==
    /\ upc = "aging"
    /\ cfg.enable_predation
    /\ Cardinality(snapshot) = 41
    /\ cfg.max_population = 100
    /\ Size(population) = 39

\* C36: no interleaving of the client's calls with the worker reaches a
\* deadlock: the client never waits for the worker to end while it holds the
\* engine lock and the worker stands where it must take that lock.
C36_NoDeadlock ==
    ~( /\ cpc = "callback_join"
       /\ ShouldJoin("client")
       /\ wpc \in {"top", "wait", "commit"}
       /\ ~ENABLED (Next \/ CallbackStops \/ CallbackJoin) )

\* C37: whenever the worker is between generations or has left its loop,
\* the engine's total_generations equals the environment's generation
\* counter, also when stop() was requested while update() ran.
C37_CountersInStep ==
    (~crashed /\ wpc \in {"none", "top", "wait", "check", "post", "done"}) =>
        total_generations = env_generation

\* C38: in every state where the environment lock is free,
\* total_organisms_created - total_organisms_died, stats.population_size and
\* the number of entries of the population are the same.
C38_PopulationAccounting ==
    mutex = "free" =>
        /\ env_stats.total_organisms_created - env_stats.total_organisms_died
             = env_stats.population_size
        /\ env_stats.population_size = Size(population)

\* C39: start() creates a worker only when no earlier thread handle is
\* joinable, and it never brings the process down: after a stop() made on the
\* worker thread a later start() starts a fresh worker.
C39_StartAfterWorkerStop ==
    [][ Calls("start") =>
          /\ ~crashed'
          /\ wpc' # wpc => (~Joinable /\ wpc' = "top")
      ]_vars

\* C40: every organism that enters the state-modifying phase of an update()
\* was in the snapshot that update() evaluated, also when other threads add
\* and remove organisms between the snapshot and the re-lock.
C40_OnlyEvaluatedTakePart ==
    [][ (upc = "elitism" /\ upc' = "scarcity") =>
          DOMAIN population \subseteq snapshot
      ]_vars

====
